---- MODULE Spec2Model ----
(***************************************************************************)
(* GeometryFilters (Source/Core/GeometryFilters.js): the mesh-preparation  *)
(* filters, each modelled as one atomic call on a heap of Geometry         *)
(* objects.  A Geometry is an object with an identity (its position in     *)
(* heap); a filter mutates the object it is given and/or allocates new     *)
(* ones, and returns a reference.                                          *)
(***************************************************************************)
EXTENDS Integers, Sequences, FiniteSets, TLC

VARIABLES
    heap,       \* the Geometry objects, by identity (1..Len(heap))
    heap0,      \* the heap as it was when the filter was called
    mesh,       \* the mesh argument: None or Some(id)
    instancesArg, \* the instances argument of combine: None or Some(list)
    op,         \* the filter the caller calls
    instance,   \* the instance argument of transformToWorldCoordinates
    instance0,  \* that instance as it was when the filter was called
    tables,     \* the indices and map arguments of mapAttributeIndices
    attributeNames, \* the name arguments of encodeAttribute
    pc,         \* "ready" | "returned" | "threw"
    ret         \* the value returned: None (undefined) or Some(value)

vars == <<heap, heap0, mesh, instancesArg, instance, instance0, tables, attributeNames, op, pc, ret>>

(***************************************************************************)
(* Bounds of the model.                                                    *)
(***************************************************************************)
MaxVertices == 3        \* vertices per mesh given to the in-place filters
MaxIndices == 4         \* longest index list given to the in-place filters
\* The vertex capacity of one chunk of fitToUnsignedShortIndices.  The source
\* sets it to 64 * 1024 (line 355); the model scales it down so that meshes
\* over the limit, and chunks filled to the limit, are within reach.
sixtyFourK == 4
MaxInstances == 2       \* longest instance list given to combine
MaxWireframeIndices == 6 \* longest index list given to toWireframe
MaxMapEntries == 2      \* most properties of a map given to mapAttributeIndices
MaxTriangles == 2       \* most triangles of a mesh given to computeNormal
\* The index buffer of combine.  The source takes a Uint16Array, whose
\* elements hold 65536 values, when there are fewer than 60 * 1024 indices
\* (lines 733-734), and a Uint32Array otherwise; the model scales both numbers
\* down, the second still below the first, so that geometries of that many
\* vertices and indices are within reach.
Uint16Modulus == 8
SixtyK == 6

(***************************************************************************)
(* JavaScript values.                                                      *)
(***************************************************************************)
\* The value undefined: what a read of a missing array element or of a hole
\* yields.  It is no index and no vertex datum.
undefined == -1000

\* The sequence f, in the representation TLC indexes in constant time.
AsTuple(f) == f \o <<>>

None == <<>>
Some(x) == <<x>>
IsDefined(o) == o # None
Val(o) == o[1]

\* a[i] for a JavaScript array a (0-based): undefined outside 0..length-1.
ArrGet(a, i) == IF i >= 0 /\ i < Len(a) THEN a[i + 1] ELSE undefined

\* a[i] = v: extends the array (with holes, which read as undefined) when
\* i >= length; a key that is no array index (a negative number, undefined,
\* NaN) becomes a plain property and leaves length and elements alone.
ArrSet(a, i, v) ==
    IF i < 0 THEN a
    ELSE IF i < Len(a) THEN [a EXCEPT ![i + 1] = v]
    ELSE a \o [j \in 1..(i - Len(a)) |-> undefined] \o <<v>>

\* An attribute map is an object whose own properties are iterated in
\* insertion order: a sequence of [name, attribute fields].
AttrNames(attrs) == {attrs[i].name : i \in 1..Len(attrs)}
HasAttr(attrs, name) == name \in AttrNames(attrs)
AttrIndex(attrs, name) == CHOOSE i \in 1..Len(attrs) : attrs[i].name = name
GetAttr(attrs, name) == attrs[AttrIndex(attrs, name)]
\* typeof attribute.values !== 'undefined': an attribute whose values are
\* undefined is a record without the values field.
HasValues(attribute) == "values" \in DOMAIN attribute

\* Typed arrays: what an element holds after a store of the integer v >= 0.
\* (Every integer of the model is below 2^32, which a Uint32Array holds as is.)
Uint16Store(v) == v % Uint16Modulus
Uint32Store(v) == v

\* ComponentDatatype.createTypedArray: a zero-filled buffer of the given
\* length whose elements hold values of the datatype (a FLOAT holds the
\* model's integers exactly; an UNSIGNED_BYTE holds them modulo 256).
ComponentStore(datatype, v) ==
    IF datatype = "UNSIGNED_BYTE" THEN v % 256 ELSE v
createTypedArray(length) == AsTuple([q \in 1..length |-> 0])

\* Matrix4.equals: componentwise equality.
Matrix4Equals(a, b) == a = b

\* BoundingSphere.union: the smallest sphere enclosing both (spheres are
\* modelled on one axis, by their extent [lo, hi]).
BoundingSphereUnion(a, b) ==
    [lo |-> IF a.lo < b.lo THEN a.lo ELSE b.lo,
     hi |-> IF a.hi > b.hi THEN a.hi ELSE b.hi]

\* The per-vertex block of vertex v in a flat value buffer.
Block(values, cpa, v) == [i \in 1..cpa |-> ArrGet(values, v * cpa + i - 1)]

(***************************************************************************)
(* Geometry.computeNumberOfVertices                                        *)
(***************************************************************************)
RECURSIVE NumberOfVerticesFrom(_, _, _)
NumberOfVerticesFrom(attrs, i, numberOfVertices) ==
    IF i > Len(attrs) THEN [threw |-> FALSE, value |-> numberOfVertices]
    ELSE LET num == Len(attrs[i].values) \div attrs[i].componentsPerAttribute
         IN  IF numberOfVertices # num /\ numberOfVertices # -1
             THEN [threw |-> TRUE, value |-> numberOfVertices]
             ELSE NumberOfVerticesFrom(attrs, i + 1, num)

computeNumberOfVertices(g) == NumberOfVerticesFrom(g.attributes, 1, -1)

(***************************************************************************)
(* GeometryFilters.reorderForPreVertexCache                                *)
(***************************************************************************)
\* The loop of lines 208-224, from position intoIndicesIn on.
RECURSIVE ReorderIndices(_, _, _, _, _, _, _)
ReorderIndices(indicesIn, numVertices, intoIndicesIn, intoIndicesOut, indexCrossReferenceOldToNew, indicesOut, nextIndex) ==
    IF ~(intoIndicesIn < Len(indicesIn))
    THEN [threw |-> FALSE, xref |-> indexCrossReferenceOldToNew,
          indicesOut |-> indicesOut]
    ELSE LET tempIndex == ArrGet(indexCrossReferenceOldToNew,
                                 ArrGet(indicesIn, intoIndicesIn))
         IN  IF tempIndex # -1
             THEN ReorderIndices(indicesIn, numVertices, intoIndicesIn + 1,
                      intoIndicesOut + 1, indexCrossReferenceOldToNew,
                      ArrSet(indicesOut, intoIndicesOut, tempIndex), nextIndex)
             ELSE LET tempIndex2 == ArrGet(indicesIn, intoIndicesIn)
                  IN  IF tempIndex2 >= numVertices
                      THEN [threw |-> TRUE, xref |-> indexCrossReferenceOldToNew,
                            indicesOut |-> indicesOut]
                      ELSE ReorderIndices(indicesIn, numVertices,
                               intoIndicesIn + 1, intoIndicesOut + 1,
                               ArrSet(indexCrossReferenceOldToNew, tempIndex2, nextIndex),
                               ArrSet(indicesOut, intoIndicesOut, nextIndex),
                               nextIndex + 1)

\* CopyElements with the block left in its old slot (the cross reference is
\* not applied to the vertex data).
RECURSIVE CopyElementsInPlace(_, _, _, _, _, _)
CopyElementsInPlace(elementsOut, elementsIn, numComponents, temp, intoElementsIn, i) ==
    IF ~(i < numComponents) THEN elementsOut
    ELSE CopyElementsInPlace(
             ArrSet(elementsOut, numComponents * intoElementsIn + i,
                    ArrGet(elementsIn, numComponents * intoElementsIn + i)),
             elementsIn, numComponents, temp, intoElementsIn, i + 1)

\* The inner loop of lines 238-240, from component i on.
RECURSIVE CopyElements(_, _, _, _, _, _)
CopyElements(elementsOut, elementsIn, numComponents, temp, intoElementsIn, i) ==
    IF ~(i < numComponents) THEN elementsOut
    ELSE CopyElements(
             ArrSet(elementsOut, numComponents * temp + i,
                    ArrGet(elementsIn, numComponents * intoElementsIn + i)),
             elementsIn, numComponents, temp, intoElementsIn, i + 1)

\* The loop of lines 236-242, from vertex intoElementsIn on.
RECURSIVE ReorderElements(_, _, _, _, _, _)
ReorderElements(elementsIn, numComponents, numVertices, indexCrossReferenceOldToNew, intoElementsIn, elementsOut) ==
    IF ~(intoElementsIn < numVertices) THEN elementsOut
    ELSE LET temp == ArrGet(indexCrossReferenceOldToNew, intoElementsIn)
         IN  ReorderElements(elementsIn, numComponents, numVertices,
                 indexCrossReferenceOldToNew, intoElementsIn + 1,
                 CopyElements(elementsOut, elementsIn, numComponents, temp,
                              intoElementsIn, 0))

\* Lines 228-245: every attribute's values replaced by the reordered buffer.
ReorderVertices(attributes, numVertices, indexCrossReferenceOldToNew) ==
    [p \in 1..Len(attributes) |->
        [attributes[p] EXCEPT !.values =
            ReorderElements(attributes[p].values,
                            attributes[p].componentsPerAttribute, numVertices,
                            indexCrossReferenceOldToNew, 0, <<>>)]]

\* The whole call on the Geometry g: [threw, geometry after the call].
reorderForPreVertexCache(g) ==
    LET nv == computeNumberOfVertices(g) IN
    IF nv.threw THEN [threw |-> TRUE, geometry |-> g]
    ELSE
    LET numVertices == nv.value
        xref0 == [i \in 1..numVertices |-> -1]
        r == IF IsDefined(g.indexList)
             THEN ReorderIndices(Val(g.indexList), numVertices, 0, 0, xref0, <<>>, 0)
             ELSE [threw |-> FALSE, xref |-> xref0, indicesOut |-> <<>>]
    IN  IF r.threw THEN [threw |-> TRUE, geometry |-> g]
        ELSE [threw |-> FALSE,
              geometry |->
                [g EXCEPT
                    !.indexList = IF IsDefined(g.indexList)
                                  THEN Some(r.indicesOut) ELSE None,
                    !.attributes = ReorderVertices(g.attributes, numVertices, r.xref)]]

(***************************************************************************)
(* GeometryFilters.fitToUnsignedShortIndices                               *)
(***************************************************************************)
\* new GeometryAttribute for every attribute, with no values yet.
copyAttributesDescriptions(attributes) ==
    [p \in 1..Len(attributes) |->
        [name |-> attributes[p].name,
         componentDatatype |-> attributes[p].componentDatatype,
         componentsPerAttribute |-> attributes[p].componentsPerAttribute,
         normalize |-> attributes[p].normalize,
         values |-> <<>>]]

\* copyVertex reading the block at index + k (the index not scaled by the
\* attribute's component count).
copyVertexUnscaled(destinationAttributes, sourceAttributes, index) ==
    [d \in 1..Len(destinationAttributes) |->
        LET name == destinationAttributes[d].name IN
        IF HasAttr(sourceAttributes, name)
        THEN LET attr == GetAttr(sourceAttributes, name)
             IN  [destinationAttributes[d] EXCEPT !.values =
                    @ \o [k \in 1..attr.componentsPerAttribute |->
                            ArrGet(attr.values, index + (k - 1))]]
        ELSE destinationAttributes[d]]

\* Pushes the block of vertex index of every source attribute onto the
\* destination attribute of the same name.
copyVertex(destinationAttributes, sourceAttributes, index) ==
    [d \in 1..Len(destinationAttributes) |->
        LET name == destinationAttributes[d].name IN
        IF HasAttr(sourceAttributes, name)
        THEN LET attr == GetAttr(sourceAttributes, name)
             IN  [destinationAttributes[d] EXCEPT !.values =
                    @ \o [k \in 1..attr.componentsPerAttribute |->
                            ArrGet(attr.values,
                                   (index * attr.componentsPerAttribute) + (k - 1))]]
        ELSE destinationAttributes[d]]

createMesh(attributes, primitiveType, indices) ==
    [attributes |-> attributes, indexList |-> Some(indices),
     primitiveType |-> primitiveType, boundingSphere |-> None]

\* Lines 372-378 (and 380-386, 388-394): the chunk index of old index x,
\* which is given one, and its vertex copied, when the chunk has not seen it.
MapIndex(c, attributes, x) ==
    LET i == ArrGet(c.oldToNewIndex, x) IN
    IF i = undefined
    THEN [i |-> c.currentIndex,
          oldToNewIndex |-> ArrSet(c.oldToNewIndex, x, c.currentIndex),
          currentIndex |-> c.currentIndex + 1,
          newAttributes |-> copyVertex(c.newAttributes, attributes, x)]
    ELSE [c EXCEPT !.i = i]

\* Line 400 with the chunk sealed only once it is over the limit.
ChunkIsFullLate(currentIndex) == currentIndex > sixtyFourK

\* Line 400: no room is left for a triangle of three new vertices.
ChunkIsFull(currentIndex) == currentIndex + 3 > sixtyFourK

\* The loop of lines 365-409 from index position j on; s is
\* [oldToNewIndex, newIndices, currentIndex, newAttributes, geometries].
RECURSIVE SplitTriangles(_, _, _)
SplitTriangles(g, j, s) ==
    IF ~(j < Len(Val(g.indexList))) THEN s
    ELSE
    LET originalIndices == Val(g.indexList)
        x0 == ArrGet(originalIndices, j)
        x1 == ArrGet(originalIndices, j + 1)
        x2 == ArrGet(originalIndices, j + 2)
        c0 == MapIndex([i |-> undefined, oldToNewIndex |-> s.oldToNewIndex,
                        currentIndex |-> s.currentIndex,
                        newAttributes |-> s.newAttributes], g.attributes, x0)
        c1 == MapIndex(c0, g.attributes, x1)
        c2 == MapIndex(c1, g.attributes, x2)
        newIndices == s.newIndices \o <<c0.i, c1.i, c2.i>>
    IN  IF ChunkIsFull(c2.currentIndex)
        THEN SplitTriangles(g, j + 3,
                 [oldToNewIndex |-> <<>>, newIndices |-> <<>>, currentIndex |-> 0,
                  newAttributes |-> copyAttributesDescriptions(g.attributes),
                  geometries |-> Append(s.geometries,
                      createMesh(c2.newAttributes, g.primitiveType, newIndices))])
        ELSE SplitTriangles(g, j + 3,
                 [oldToNewIndex |-> c2.oldToNewIndex, newIndices |-> newIndices,
                  currentIndex |-> c2.currentIndex,
                  newAttributes |-> c2.newAttributes,
                  geometries |-> s.geometries])

\* Line 356 with the limit itself taken as too many vertices.
NeedsSplitAtLimit(g, numberOfVertices) ==
    IsDefined(g.indexList) /\ numberOfVertices >= sixtyFourK

\* Line 356: there is an index list and more vertices than the limit.
NeedsSplit(g, numberOfVertices) ==
    IsDefined(g.indexList) /\ numberOfVertices > sixtyFourK

\* The whole call on the Geometry g: [threw, split, geometries], where
\* geometries are the new Geometry objects when split, and the result is the
\* one-element list of g itself when not.
fitToUnsignedShortIndices(g) ==
    IF g.primitiveType # "TRIANGLES"
    THEN [threw |-> TRUE, split |-> FALSE, geometries |-> <<>>]
    ELSE
    LET nv == computeNumberOfVertices(g) IN
    IF nv.threw THEN [threw |-> TRUE, split |-> FALSE, geometries |-> <<>>]
    ELSE IF NeedsSplit(g, nv.value)
    THEN LET s == SplitTriangles(g, 0,
                     [oldToNewIndex |-> <<>>, newIndices |-> <<>>,
                      currentIndex |-> 0,
                      newAttributes |-> copyAttributesDescriptions(g.attributes),
                      geometries |-> <<>>])
         IN  [threw |-> FALSE, split |-> TRUE,
              geometries |->
                IF Len(s.newIndices) # 0
                THEN Append(s.geometries,
                            createMesh(s.newAttributes, g.primitiveType, s.newIndices))
                ELSE s.geometries]
    ELSE [threw |-> FALSE, split |-> FALSE, geometries |-> <<>>]

(***************************************************************************)
(* GeometryFilters.combine                                                 *)
(***************************************************************************)
\* AttributeMatches without the comparison of normalize.
AttributeMatchesButNormalize(attribute, otherAttributes) ==
    /\ HasAttr(otherAttributes, attribute.name)
    /\ LET otherAttribute == GetAttr(otherAttributes, attribute.name)
       IN  /\ attribute.componentDatatype = otherAttribute.componentDatatype
           /\ attribute.componentsPerAttribute = otherAttribute.componentsPerAttribute

\* Lines 626-629, negated: the attribute of another instance is there and
\* agrees with the first instance's in datatype, component count and
\* normalization.
AttributeMatches(attribute, otherAttributes) ==
    /\ HasAttr(otherAttributes, attribute.name)
    /\ LET otherAttribute == GetAttr(otherAttributes, attribute.name)
       IN  /\ attribute.componentDatatype = otherAttribute.componentDatatype
           /\ attribute.componentsPerAttribute = otherAttribute.componentsPerAttribute
           /\ attribute.normalize = otherAttribute.normalize

\* Line 619 and 635: the value counts of the attribute, summed over the
\* instances from i on.
RECURSIVE NumberOfComponents(_, _, _, _)
NumberOfComponents(h, instances, name, i) ==
    IF i > Len(instances) THEN 0
    ELSE Len(GetAttr(h[instances[i].geometry].attributes, name).values)
         + NumberOfComponents(h, instances, name, i + 1)

\* The attributes of the first instance that every instance has, each with
\* an empty typed buffer for the values of all the instances.
findAttributesInAllGeometries(h, instances) ==
    LET attributes0 == h[instances[1].geometry].attributes
        inAllGeometries(attribute) ==
            \A i \in 2..Len(instances) :
                AttributeMatches(attribute, h[instances[i].geometry].attributes)
        found == SelectSeq(attributes0, inAllGeometries)
    IN  [p \in 1..Len(found) |->
            [name |-> found[p].name,
             componentDatatype |-> found[p].componentDatatype,
             componentsPerAttribute |-> found[p].componentsPerAttribute,
             normalize |-> found[p].normalize,
             values |-> createTypedArray(
                            NumberOfComponents(h, instances, found[p].name, 1))]]

\* CombineValues with k set back to 0 for every instance.
RECURSIVE CombineValuesFromZero(_, _, _, _, _, _)
CombineValuesFromZero(h, instances, attribute, i, values, k) ==
    IF i > Len(instances) THEN values
    ELSE LET sourceValues ==
                 GetAttr(h[instances[i].geometry].attributes, attribute.name).values
             sourceValuesLength == Len(sourceValues)
         IN  CombineValuesFromZero(h, instances, attribute, i + 1,
                 AsTuple([q \in 1..Len(values) |->
                     IF q <= sourceValuesLength
                     THEN ComponentStore(attribute.componentDatatype, sourceValues[q])
                     ELSE values[q]]),
                 0)

\* Lines 697-704 from instance i on: the instance's values stored at k, k+1, ...
\* (a store past the end of a typed buffer is dropped).
RECURSIVE CombineValues(_, _, _, _, _, _)
CombineValues(h, instances, attribute, i, values, k) ==
    IF i > Len(instances) THEN values
    ELSE LET sourceValues ==
                 GetAttr(h[instances[i].geometry].attributes, attribute.name).values
             sourceValuesLength == Len(sourceValues)
         IN  CombineValues(h, instances, attribute, i + 1,
                 AsTuple([q \in 1..Len(values) |->
                     IF q > k /\ q <= k + sourceValuesLength
                     THEN ComponentStore(attribute.componentDatatype,
                                         sourceValues[q - k])
                     ELSE values[q]]),
                 k + sourceValuesLength)

\* Lines 718-722: the total number of indices.
RECURSIVE NumberOfIndices(_, _, _)
NumberOfIndices(h, instances, i) ==
    IF i > Len(instances) THEN 0
    ELSE Len(Val(h[instances[i].geometry].indexList))
         + NumberOfIndices(h, instances, i + 1)

\* Lines 763-769: the vertex count of a geometry, from its first attribute.
OffsetStep(attrs) ==
    IF Len(attrs) = 0 THEN 0
    ELSE Len(attrs[1].values) \div attrs[1].componentsPerAttribute

\* Lines 733-737: the element type of the index buffer, by what a store of v
\* leaves in it.
IndexStore(num, v) == IF num < SixtyK THEN Uint16Store(v) ELSE Uint32Store(v)

\* Lines 751-770 from instance i on: the instance's indices plus offset stored
\* at n, n+1, ...; num is the length of destValues.
RECURSIVE CombineIndexLists(_, _, _, _, _, _, _)
CombineIndexLists(h, instances, i, destValues, n, offset, num) ==
    IF i > Len(instances) THEN destValues
    ELSE LET sourceValues == Val(h[instances[i].geometry].indexList)
             sourceValuesLength == Len(sourceValues)
         IN  CombineIndexLists(h, instances, i + 1,
                 AsTuple([q \in 1..Len(destValues) |->
                     IF q > n /\ q <= n + sourceValuesLength
                     THEN IndexStore(num, offset + sourceValues[q - n])
                     ELSE destValues[q]]),
                 n + sourceValuesLength,
                 offset + OffsetStep(h[instances[i].geometry].attributes),
                 num)

\* Lines 775-788 with an absent bounding sphere skipped instead of ending the
\* loop.
RECURSIVE CombineBoundingSpheresSkipAbsent(_, _, _, _)
CombineBoundingSpheresSkipAbsent(h, instances, i, boundingSphere) ==
    IF i > Len(instances) THEN boundingSphere
    ELSE LET bs == h[instances[i].geometry].boundingSphere
         IN  IF ~IsDefined(bs)
             THEN CombineBoundingSpheresSkipAbsent(h, instances, i + 1,
                                                   boundingSphere)
             ELSE IF ~IsDefined(boundingSphere)
             THEN CombineBoundingSpheresSkipAbsent(h, instances, i + 1, bs)
             ELSE CombineBoundingSpheresSkipAbsent(h, instances, i + 1,
                      Some(BoundingSphereUnion(Val(boundingSphere), Val(bs))))

\* Lines 675-680 with the loop started one instance late.
ModelMatricesDifferSkippingSecond(instances) ==
    \E i \in 3..Len(instances) :
        ~Matrix4Equals(instances[i].modelMatrix, instances[1].modelMatrix)

\* Lines 674-680: some instance's modelMatrix is not that of the first.
ModelMatricesDiffer(instances) ==
    \E i \in 2..Len(instances) :
        ~Matrix4Equals(instances[i].modelMatrix, instances[1].modelMatrix)

\* Lines 775-788 from instance i on.
RECURSIVE CombineBoundingSpheres(_, _, _, _)
CombineBoundingSpheres(h, instances, i, boundingSphere) ==
    IF i > Len(instances) THEN boundingSphere
    ELSE LET bs == h[instances[i].geometry].boundingSphere
         IN  IF ~IsDefined(bs) THEN None
             ELSE IF ~IsDefined(boundingSphere)
             THEN CombineBoundingSpheres(h, instances, i + 1, bs)
             ELSE CombineBoundingSpheres(h, instances, i + 1,
                      Some(BoundingSphereUnion(Val(boundingSphere), Val(bs))))

\* Line 666 with every list taken as a list of one.
IsSingleInstanceOrMore(length) == length >= 1

\* Line 666: there is nothing to combine.
IsSingleInstance(length) == length = 1

\* The whole call: [threw, isNew, ref, geometry]: the result is the existing
\* object ref, or the new Geometry geometry.
combine(h, insts) ==
    LET Threw == [threw |-> TRUE, isNew |-> FALSE, ref |-> 0, geometry |-> None]
    IN
    IF ~IsDefined(insts) THEN Threw
    ELSE IF Len(Val(insts)) < 1 THEN Threw
    ELSE
    LET instances == Val(insts)
        length == Len(instances)
    IN
    IF IsSingleInstance(length)
    THEN [threw |-> FALSE, isNew |-> FALSE, ref |-> instances[1].geometry,
          geometry |-> None]
    ELSE IF ModelMatricesDiffer(instances)
    THEN Threw
    ELSE
    LET found == findAttributesInAllGeometries(h, instances)
        attributes ==
            [p \in 1..Len(found) |->
                [found[p] EXCEPT !.values =
                    CombineValues(h, instances, found[p], 1, found[p].values, 0)]]
    IN
    \* indices.length of an absent index list (line 721) is a TypeError
    IF \E i \in 1..length : ~IsDefined(h[instances[i].geometry].indexList)
    THEN Threw
    ELSE
    LET primitiveType == h[instances[1].geometry].primitiveType
        num == NumberOfIndices(h, instances, 1)
        indexList == CombineIndexLists(h, instances, 1, createTypedArray(num),
                                       0, 0, num)
    IN  [threw |-> FALSE, isNew |-> TRUE, ref |-> 0,
         geometry |->
            Some([attributes |-> attributes,
                  indexList |-> Some(indexList),
                  primitiveType |-> primitiveType,
                  boundingSphere |->
                      CombineBoundingSpheres(h, instances, 1, None)])]

(***************************************************************************)
(* GeometryFilters.toWireframe                                             *)
(***************************************************************************)
\* Lines 61-70 without the edge that closes the triangle.
addTriangleWithoutClosingEdge(lines, i0, i1, i2) ==
    lines \o <<i0, i1, i1, i2>>

\* Lines 61-70: the three edges of a triangle, pushed onto lines.
addTriangle(lines, i0, i1, i2) ==
    lines \o <<i0, i1, i1, i2, i2, i0>>

\* The loop of lines 75-77, from position i on.
RECURSIVE TrianglesLoop(_, _, _)
TrianglesLoop(triangles, i, lines) ==
    IF ~(i < Len(triangles)) THEN lines
    ELSE TrianglesLoop(triangles, i + 3,
             addTriangle(lines, ArrGet(triangles, i), ArrGet(triangles, i + 1),
                         ArrGet(triangles, i + 2)))

\* Lines 72-80.
trianglesToLines(triangles) == TrianglesLoop(triangles, 0, <<>>)

\* The loop of lines 89-91, from position i on.
RECURSIVE StripLoop(_, _, _)
StripLoop(triangles, i, lines) ==
    IF ~(i < Len(triangles)) THEN lines
    ELSE StripLoop(triangles, i + 1,
             addTriangle(lines, ArrGet(triangles, i - 1), ArrGet(triangles, i),
                         ArrGet(triangles, i - 2)))

\* Lines 82-95.
triangleStripToLines(triangles) ==
    IF Len(triangles) >= 3
    THEN StripLoop(triangles, 3,
             addTriangle(<<>>, ArrGet(triangles, 0), ArrGet(triangles, 1),
                         ArrGet(triangles, 2)))
    ELSE <<>>

\* The loop of lines 103-105, from position i on, up to count.
RECURSIVE FanLoop(_, _, _, _, _)
FanLoop(triangles, base, count, i, lines) ==
    IF ~(i < count) THEN lines
    ELSE FanLoop(triangles, base, count, i + 1,
             addTriangle(lines, base, ArrGet(triangles, i),
                         ArrGet(triangles, i + 1)))

\* Lines 97-109 with the loop run up to the last index.
triangleFanToLinesToLastIndex(triangles) ==
    IF Len(triangles) > 0
    THEN FanLoop(triangles, ArrGet(triangles, 0), Len(triangles), 1, <<>>)
    ELSE <<>>

\* Lines 97-109.
triangleFanToLines(triangles) ==
    IF Len(triangles) > 0
    THEN FanLoop(triangles, ArrGet(triangles, 0), Len(triangles) - 1, 1, <<>>)
    ELSE <<>>

\* Lines 111-128 for a defined mesh: the mesh after the call.  A mesh with
\* an index list of any other primitive type keeps the list and becomes LINES.
toWireframe(g) ==
    IF ~IsDefined(g.indexList) THEN g
    ELSE LET indices == Val(g.indexList)
             lines == IF g.primitiveType = "TRIANGLES"
                      THEN trianglesToLines(indices)
                      ELSE IF g.primitiveType = "TRIANGLE_STRIP"
                      THEN triangleStripToLines(indices)
                      ELSE IF g.primitiveType = "TRIANGLE_FAN"
                      THEN triangleFanToLines(indices)
                      ELSE indices
         IN  [g EXCEPT !.indexList = Some(lines), !.primitiveType = "LINES"]

(***************************************************************************)
(* GeometryFilters.mapAttributeIndices                                     *)
(***************************************************************************)
\* An object is a function on its own property names; indices[name] of a
\* name the object does not have is undefined.
PropertyGet(object, name) ==
    IF name \in DOMAIN object THEN object[name] ELSE undefined

\* object[key] = value: the property is created if the object lacks it.
PropertySet(object, key, value) ==
    [k \in (DOMAIN object) \cup {key} |-> IF k = key THEN value ELSE object[k]]

\* The loop of lines 160-164 over the properties of map (a list of
\* <<name, map[name]>> in enumeration order) from the i-th on.
RECURSIVE MapLoop(_, _, _, _)
MapLoop(indices, map, i, mappedIndices) ==
    IF i > Len(map) THEN mappedIndices
    ELSE MapLoop(indices, map, i + 1,
             PropertySet(mappedIndices, map[i][2],
                         PropertyGet(indices, map[i][1])))

\* Lines 156-168: the object returned.
mapAttributeIndices(indices, map) ==
    IF IsDefined(indices) /\ IsDefined(map)
    THEN MapLoop(Val(indices), Val(map), 1, <<>>)
    ELSE <<>>

(***************************************************************************)
(* GeometryFilters.encodeAttribute                                         *)
(***************************************************************************)
\* The unit of the high part of EncodedCartesian3: high parts are multiples
\* of 65536.
EncodeUnit == 65536

\* EncodedCartesian3.encode(value, result): result.high, the multiple of
\* EncodeUnit next to value towards zero, and result.low, the rest.
EncodedHigh(value) ==
    IF value >= 0 THEN (value \div EncodeUnit) * EncodeUnit
    ELSE -(((-value) \div EncodeUnit) * EncodeUnit)
EncodedLow(value) == value - EncodedHigh(value)

\* Line 485-487: defaultValue(argument, default).
defaultValue(argument, default) ==
    IF IsDefined(argument) THEN Val(argument) ELSE default

\* attributes[name] = attribute: the property keeps its place when the
\* object has it, and is added last when it has not.
SetAttribute(attributes, name, attribute) ==
    IF HasAttr(attributes, name)
    THEN [attributes EXCEPT ![AttrIndex(attributes, name)] = attribute]
    ELSE Append(attributes, attribute)

\* delete attributes[name].
DeleteAttribute(attributes, name) ==
    SelectSeq(attributes, LAMBDA a : a.name # name)

\* Lines 514-523: new GeometryAttribute with the datatype and the components
\* of attribute, and the given values (normalize is left at its default).
EncodedAttribute(name, attribute, values) ==
    [name |-> name, componentDatatype |-> attribute.componentDatatype,
     componentsPerAttribute |-> attribute.componentsPerAttribute,
     normalize |-> FALSE, values |-> values]

\* Lines 484-527 for a defined mesh: [threw, geometry].  values.length (line
\* 504) is a TypeError when the attribute has no values.
encodeAttribute(g, nameArgument, highArgument, lowArgument) ==
    LET attributeName == defaultValue(nameArgument, "position")
        attributeHighName == defaultValue(highArgument, "positionHigh")
        attributeLowName == defaultValue(lowArgument, "positionLow")
    IN
    IF ~HasAttr(g.attributes, attributeName)
    THEN [threw |-> TRUE, geometry |-> g]
    ELSE
    LET attribute == GetAttr(g.attributes, attributeName) IN
    IF attribute.componentDatatype # "FLOAT" \/ ~HasValues(attribute)
    THEN [threw |-> TRUE, geometry |-> g]
    ELSE
    LET values == attribute.values
        highValues == AsTuple([i \in 1..Len(values) |-> EncodedHigh(values[i])])
        lowValues == AsTuple([i \in 1..Len(values) |-> EncodedLow(values[i])])
        withHigh ==
            SetAttribute(g.attributes, attributeHighName,
                EncodedAttribute(attributeHighName, attribute, highValues))
        withLow ==
            SetAttribute(withHigh, attributeLowName,
                EncodedAttribute(attributeLowName, attribute, lowValues))
    IN  [threw |-> FALSE,
         geometry |->
            [g EXCEPT !.attributes =
                DeleteAttribute(withLow, attributeName)]]

(***************************************************************************)
(* GeometryFilters.transformToWorldCoordinates                             *)
(***************************************************************************)
\* A Matrix4 is its sixteen elements, column by column, and a Matrix3 its
\* nine; the matrices of the model are affine with integer inverses.
IDENTITY == <<1, 0, 0, 0,  0, 1, 0, 0,  0, 0, 1, 0,  0, 0, 0, 1>>

\* Matrix4.multiplyByPoint: the point v transformed by matrix.
multiplyByPoint(matrix, v) ==
    <<matrix[1] * v[1] + matrix[5] * v[2] + matrix[9] * v[3] + matrix[13],
      matrix[2] * v[1] + matrix[6] * v[2] + matrix[10] * v[3] + matrix[14],
      matrix[3] * v[1] + matrix[7] * v[2] + matrix[11] * v[3] + matrix[15]>>

\* Matrix3.multiplyByVector.
multiplyByVector(matrix, v) ==
    <<matrix[1] * v[1] + matrix[4] * v[2] + matrix[7] * v[3],
      matrix[2] * v[1] + matrix[5] * v[2] + matrix[8] * v[3],
      matrix[3] * v[1] + matrix[6] * v[2] + matrix[9] * v[3]>>

\* The element in row r, column c of the rotation part of a Matrix4, its
\* cofactor and the determinant.
RotationElement(matrix, r, c) == matrix[c * 4 + r + 1]
Cofactor(matrix, r, c) ==
    RotationElement(matrix, (r + 1) % 3, (c + 1) % 3)
        * RotationElement(matrix, (r + 2) % 3, (c + 2) % 3)
    - RotationElement(matrix, (r + 1) % 3, (c + 2) % 3)
        * RotationElement(matrix, (r + 2) % 3, (c + 1) % 3)
Determinant(matrix) ==
    RotationElement(matrix, 0, 0) * Cofactor(matrix, 0, 0)
    + RotationElement(matrix, 0, 1) * Cofactor(matrix, 0, 1)
    + RotationElement(matrix, 0, 2) * Cofactor(matrix, 0, 2)

\* Lines 585-589: Matrix4.inverse, Matrix4.transpose and Matrix4.getRotation
\* in turn: the rotation part of the transpose of the inverse.
NormalMatrix(modelMatrix) ==
    [q \in 1..9 |->
        Cofactor(modelMatrix, (q - 1) % 3, (q - 1) \div 3)
            \div Determinant(modelMatrix)] \o <<>>

\* The loops of lines 535-541 and 549-555 over a buffer of whole vertices.
TransformPoints(matrix, values) ==
    AsTuple([q \in 1..Len(values) |->
        LET i == ((q - 1) \div 3) * 3
        IN  multiplyByPoint(matrix,
                <<values[i + 1], values[i + 2], values[i + 3]>>)[q - i]])

TransformVectors(matrix, values) ==
    AsTuple([q \in 1..Len(values) |->
        LET i == ((q - 1) \div 3) * 3
        IN  multiplyByVector(matrix,
                <<values[i + 1], values[i + 2], values[i + 3]>>)[q - i]])

\* Lines 531-543 and 545-557, on the attribute name of attributes (which
\* may lack it).
transformPoint(matrix, attributes, name) ==
    [p \in 1..Len(attributes) |->
        IF attributes[p].name = name
        THEN [attributes[p] EXCEPT !.values = TransformPoints(matrix, @)]
        ELSE attributes[p]]

transformVector(matrix, attributes, name) ==
    [p \in 1..Len(attributes) |->
        IF attributes[p].name = name
        THEN [attributes[p] EXCEPT !.values = TransformVectors(matrix, @)]
        ELSE attributes[p]]

\* Line 603 left out: the instance keeps its modelMatrix.
KeepModelMatrix(inst) == inst

\* Line 603: instance.modelMatrix = Matrix4.IDENTITY.clone().
ResetModelMatrix(inst) == [inst EXCEPT !.modelMatrix = IDENTITY]

\* Line 572: modelMatrix.equals(Matrix4.IDENTITY).
IsIdentity(modelMatrix) == Matrix4Equals(modelMatrix, IDENTITY)

\* Lines 533-534 and 547-548: attribute.values.length, a TypeError when the
\* attribute is there and has no values.
TransformThrows(attributes, name) ==
    HasAttr(attributes, name) /\ ~HasValues(GetAttr(attributes, name))

\* Lines 576-601: [threw, the geometry of the instance as the filter leaves
\* it].  The attributes are rewritten in place one after the other, so those
\* before the one that throws stay transformed.  For this filter a bounding
\* sphere is [center, radius].
TransformGeometry(g, modelMatrix) ==
    LET normalMatrix == NormalMatrix(modelMatrix)
        threwAtPosition == TransformThrows(g.attributes, "position")
        positions ==
            IF threwAtPosition THEN g.attributes
            ELSE transformPoint(modelMatrix, g.attributes, "position")
        threwAtNormal == threwAtPosition \/ TransformThrows(positions, "normal")
        normals ==
            IF threwAtNormal THEN positions
            ELSE transformVector(normalMatrix, positions, "normal")
        threwAtBinormal == threwAtNormal \/ TransformThrows(normals, "binormal")
        binormals ==
            IF threwAtBinormal THEN normals
            ELSE transformVector(normalMatrix, normals, "binormal")
        threwAtTangent == threwAtBinormal \/ TransformThrows(binormals, "tangent")
        vectors ==
            IF threwAtTangent THEN binormals
            ELSE transformVector(normalMatrix, binormals, "tangent")
        boundingSphere ==
            IF IsDefined(g.boundingSphere) /\ ~threwAtTangent
            THEN Some([Val(g.boundingSphere) EXCEPT
                          !.center = multiplyByPoint(modelMatrix, @)])
            ELSE g.boundingSphere
    IN  [threw |-> threwAtTangent,
         geometry |-> [g EXCEPT !.attributes = vectors,
                                !.boundingSphere = boundingSphere]]

\* Lines 564-606: [threw, returned (the instance, or nothing), heap, instance].
transformToWorldCoordinates(h, inst) ==
    IF ~IsDefined(inst)
    THEN [threw |-> TRUE, returned |-> FALSE, heap |-> h, instance |-> inst]
    ELSE IF IsIdentity(Val(inst).modelMatrix)
    THEN [threw |-> FALSE, returned |-> FALSE, heap |-> h, instance |-> inst]
    ELSE
    LET r == TransformGeometry(h[Val(inst).geometry], Val(inst).modelMatrix)
    IN  [threw |-> r.threw, returned |-> ~r.threw,
         heap |-> [h EXCEPT ![Val(inst).geometry] = r.geometry],
         instance |-> IF r.threw THEN inst
                      ELSE Some(ResetModelMatrix(Val(inst)))]

(***************************************************************************)
(* Cartesian3.  The coordinates of the model are integers; a unit vector   *)
(* is represented by the shortest integer vector of its direction.         *)
(***************************************************************************)
\* The number NaN, and the vector normalize leaves for the zero vector (0/0).
NaN == -2000
NaN3 == <<NaN, NaN, NaN>>

Abs(x) == IF x < 0 THEN -x ELSE x

RECURSIVE Gcd(_, _)
Gcd(a, b) == IF b = 0 THEN a ELSE Gcd(b, a % b)

fromArray(values, i) ==
    <<ArrGet(values, i), ArrGet(values, i + 1), ArrGet(values, i + 2)>>
add(a, b) == <<a[1] + b[1], a[2] + b[2], a[3] + b[3]>>
subtract(a, b) == <<a[1] - b[1], a[2] - b[2], a[3] - b[3]>>
dot(a, b) == a[1] * b[1] + a[2] * b[2] + a[3] * b[3]
multiplyByScalar(a, k) == <<a[1] * k, a[2] * k, a[3] * k>>
cross(a, b) ==
    <<a[2] * b[3] - a[3] * b[2],
      a[3] * b[1] - a[1] * b[3],
      a[1] * b[2] - a[2] * b[1]>>

\* Cartesian3.normalize: the unit vector of the direction of a.
normalizeVector(a) ==
    IF a = <<0, 0, 0>> THEN NaN3
    ELSE LET g == Gcd(Abs(a[1]), Gcd(Abs(a[2]), Abs(a[3])))
         IN  <<a[1] \div g, a[2] \div g, a[3] \div g>>

(***************************************************************************)
(* GeometryFilters.computeNormal                                           *)
(***************************************************************************)
\* Lines 858-881 for the triangle that starts at position i of indices:
\* (v1 - v0) x (v2 - v0).
FaceNormal(vertices, indices, i) ==
    LET v0 == fromArray(vertices, ArrGet(indices, i) * 3)
        v1 == fromArray(vertices, ArrGet(indices, i + 1) * 3)
        v2 == fromArray(vertices, ArrGet(indices, i + 2) * 3)
    IN  cross(subtract(v1, v0), subtract(v2, v0))

\* normalsPerTriangle after the loop of lines 857-883.
NormalsPerTriangle(vertices, indices) ==
    [j \in 1..(Len(indices) \div 3) |->
        FaceNormal(vertices, indices, 3 * (j - 1))]

\* normalsPerVertex[v].count after the loop of lines 857-883 (lines 875-877).
CornerCount(indices, v) ==
    Cardinality({k \in 1..Len(indices) : indices[k] = v})

\* Lines 885-889 with no offset added: every vertex's normals start at 0.
IndexOffsetZero(indices, v) == 0

\* normalsPerVertex[v].indexOffset after the loop of lines 885-889.
RECURSIVE IndexOffset(_, _)
IndexOffset(indices, v) ==
    IF v = 0 THEN 0
    ELSE IndexOffset(indices, v - 1) + CornerCount(indices, v - 1)

\* The loop of lines 893-910 from corner k of the index list on (the three
\* corners of a triangle are handled alike, in order): currentCount is the
\* currentCount of every vertex.
RECURSIVE FillNormalIndices(_, _, _, _)
FillNormalIndices(indices, k, currentCount, normalIndices) ==
    IF ~(k < Len(indices)) THEN normalIndices
    ELSE LET v == ArrGet(indices, k)
             index == IndexOffset(indices, v) + currentCount[v + 1]
         IN  FillNormalIndices(indices, k + 1,
                 [currentCount EXCEPT ![v + 1] = @ + 1],
                 ArrSet(normalIndices, index, k \div 3))

\* The loop of lines 925-927 from j on.
RECURSIVE AddNormals(_, _, _, _, _, _)
AddNormals(normalsPerTriangle, normalIndices, indexOffset, count, j, normal) ==
    IF ~(j < count) THEN normal
    ELSE AddNormals(normalsPerTriangle, normalIndices, indexOffset, count, j + 1,
             add(normal,
                 normalsPerTriangle[ArrGet(normalIndices, indexOffset + j) + 1]))

\* Lines 923-936: the normal written for vertex i.
VertexNormal(indices, normalsPerTriangle, normalIndices, i) ==
    IF CornerCount(indices, i) > 0
    THEN normalizeVector(AddNormals(normalsPerTriangle, normalIndices,
                                    IndexOffset(indices, i),
                                    CornerCount(indices, i), 0, <<0, 0, 0>>))
    ELSE <<0, 0, 1>>

\* The loop of lines 920-937 from vertex i on.
RECURSIVE WriteNormals(_, _, _, _, _, _)
WriteNormals(indices, normalsPerTriangle, normalIndices, numVertices, i, normalValues) ==
    IF ~(i < numVertices) THEN normalValues
    ELSE LET normal == VertexNormal(indices, normalsPerTriangle, normalIndices, i)
         IN  WriteNormals(indices, normalsPerTriangle, normalIndices,
                 numVertices, i + 1,
                 ArrSet(ArrSet(ArrSet(normalValues, i * 3, normal[1]),
                               i * 3 + 1, normal[2]),
                        i * 3 + 2, normal[3]))

\* new GeometryAttribute of FLOAT vectors (normalize is left at its default).
NewVectorAttribute(name, values) ==
    [name |-> name, componentDatatype |-> "FLOAT", componentsPerAttribute |-> 3,
     normalize |-> FALSE, values |-> values]

\* Lines 837-840 and 1001-1004 without the test of the primitive type.
NotApplicableWhateverTheType(g) ==
    \/ ~IsDefined(g.indexList)
    \/ Len(Val(g.indexList)) < 2
    \/ Len(Val(g.indexList)) % 3 # 0

\* Lines 832-840 and 996-1004: there is nothing to compute.
NotApplicable(g) ==
    \/ ~IsDefined(g.indexList)
    \/ g.primitiveType # "TRIANGLES"
    \/ Len(Val(g.indexList)) < 2
    \/ Len(Val(g.indexList)) % 3 # 0

\* Lines 820-940 for a defined mesh: [threw, geometry].  An index that is no
\* vertex makes normalsPerVertex[i0].count++ (line 875) a TypeError, before
\* anything is written.
computeNormal(g) ==
    IF ~HasAttr(g.attributes, "position")
    THEN [threw |-> TRUE, geometry |-> g]
    ELSE
    LET position == GetAttr(g.attributes, "position")
        vertices == position.values
    IN
    IF position.componentsPerAttribute # 3 \/ Len(vertices) % 3 # 0
    THEN [threw |-> TRUE, geometry |-> g]
    ELSE IF NotApplicable(g)
    THEN [threw |-> FALSE, geometry |-> g]
    ELSE
    LET indices == Val(g.indexList)
        numVertices == Len(vertices) \div 3
    IN
    IF \E k \in 1..Len(indices) : ~(indices[k] \in 0..(numVertices - 1))
    THEN [threw |-> TRUE, geometry |-> g]
    ELSE
    LET normalsPerTriangle == NormalsPerTriangle(vertices, indices)
        normalIndices ==
            FillNormalIndices(indices, 0, [v \in 1..numVertices |-> 0],
                              [k \in 1..Len(indices) |-> undefined])
        attributes ==
            IF HasAttr(g.attributes, "normal") THEN g.attributes
            ELSE Append(g.attributes,
                        NewVectorAttribute("normal",
                            [k \in 1..(numVertices * 3) |-> undefined]))
        p == AttrIndex(attributes, "normal")
    IN  [threw |-> FALSE,
         geometry |->
            [g EXCEPT !.attributes =
                [attributes EXCEPT ![p].values =
                    AsTuple(WriteNormals(indices, normalsPerTriangle,
                                normalIndices, numVertices, 0, @))]]]

(***************************************************************************)
(* GeometryFilters.computeTangentAndBinormal                               *)
(*                                                                         *)
(* A triangle adds sdir = numerator / denominator to tan1 at its three     *)
(* vertices.  The model keeps every sum as an integer vector, scaled by    *)
(* the product of the absolute denominators of all triangles (a positive   *)
(* factor, which normalize removes), and keeps apart the sums that are no  *)
(* finite vectors: those a triangle with a zero denominator (r = 1/0) or   *)
(* with an index that is no vertex (undefined read) has added to.          *)
(***************************************************************************)
\* Lines 1032-1037: (st[i12] - wx) * t2 - (st[i22] - wx) * t1, the
\* denominator of r, for the triangle that starts at position i of indices.
Denominator(st, indices, i) ==
    LET i02 == ArrGet(indices, i) * 2
        i12 == ArrGet(indices, i + 1) * 2
        i22 == ArrGet(indices, i + 2) * 2
        wx == ArrGet(st, i02)
        wy == ArrGet(st, i02 + 1)
        t1 == ArrGet(st, i12 + 1) - wy
        t2 == ArrGet(st, i22 + 1) - wy
    IN  (ArrGet(st, i12) - wx) * t2 - (ArrGet(st, i22) - wx) * t1

\* Lines 1038-1040 without the factor r: t2 * (v1 - v0) - t1 * (v2 - v0).
Numerator(vertices, st, indices, i) ==
    LET i0 == ArrGet(indices, i)
        i1 == ArrGet(indices, i + 1)
        i2 == ArrGet(indices, i + 2)
        u == fromArray(vertices, i0 * 3)
        t1 == ArrGet(st, i1 * 2 + 1) - ArrGet(st, i0 * 2 + 1)
        t2 == ArrGet(st, i2 * 2 + 1) - ArrGet(st, i0 * 2 + 1)
    IN  subtract(multiplyByScalar(subtract(fromArray(vertices, i1 * 3), u), t2),
                 multiplyByScalar(subtract(fromArray(vertices, i2 * 3), u), t1))

\* The triangle reads a position or a texture coordinate that does not
\* exist, or divides by zero: its sdir is no finite vector.
NotFinite(vertices, st, indices, i) ==
    \/ \E c \in 0..2 :
          \/ ~(ArrGet(indices, i + c) \in 0..((Len(vertices) \div 3) - 1))
          \/ ~(ArrGet(indices, i + c) \in 0..((Len(st) \div 2) - 1))
    \/ Denominator(st, indices, i) = 0

\* The product of the absolute denominators of the triangles from i on.
RECURSIVE CommonDenominator(_, _, _, _)
CommonDenominator(vertices, st, indices, i) ==
    IF ~(i < Len(indices)) THEN 1
    ELSE (IF NotFinite(vertices, st, indices, i) THEN 1
          ELSE Abs(Denominator(st, indices, i)))
         * CommonDenominator(vertices, st, indices, i + 3)

\* sdir of the triangle at i, scaled by scale: [finite, vector].
ScaledSdir(vertices, st, indices, i, scale) ==
    IF NotFinite(vertices, st, indices, i)
    THEN [finite |-> FALSE, vector |-> NaN3]
    ELSE LET denominator == Denominator(st, indices, i)
         IN  [finite |-> TRUE,
              vector |->
                  multiplyByScalar(Numerator(vertices, st, indices, i),
                      (IF denominator < 0 THEN -1 ELSE 1)
                          * (scale \div Abs(denominator)))]

\* tan1[i03..i03+2] += sdir (lines 1042-1052, for one vertex): a vertex the
\* mesh does not have gets properties beyond the vertices of tan1.
AddSdir(tan1, vertex, sdir) ==
    IF ~(vertex \in 0..(Len(tan1) - 1)) THEN tan1
    ELSE [tan1 EXCEPT ![vertex + 1] =
            IF @.finite /\ sdir.finite
            THEN [finite |-> TRUE, vector |-> add(@.vector, sdir.vector)]
            ELSE [finite |-> FALSE, vector |-> NaN3]]

\* The loop of lines 1017-1053 from position i on; tan1 holds one sum per
\* vertex.
RECURSIVE Tan1Loop(_, _, _, _, _, _)
Tan1Loop(vertices, st, indices, i, scale, tan1) ==
    IF ~(i < Len(indices)) THEN tan1
    ELSE LET sdir == ScaledSdir(vertices, st, indices, i, scale)
         IN  Tan1Loop(vertices, st, indices, i + 3, scale,
                 AddSdir(AddSdir(AddSdir(tan1, ArrGet(indices, i), sdir),
                                 ArrGet(indices, i + 1), sdir),
                         ArrGet(indices, i + 2), sdir))

\* Lines 1061-1065: normalize(t - n * (n . t)) for vertex i.
VertexTangent(normals, tan1, i) ==
    IF ~tan1[i + 1].finite \/ i * 3 + 2 >= Len(normals) THEN NaN3
    ELSE LET n == fromArray(normals, i * 3)
             t == tan1[i + 1].vector
         IN  normalizeVector(subtract(t, multiplyByScalar(n, dot(n, t))))

\* Line 1069: normalize(n x t) for vertex i and its tangent t.
VertexBinormal(normals, tangent, i) ==
    IF tangent = NaN3 THEN NaN3
    ELSE normalizeVector(cross(fromArray(normals, i * 3), tangent))

\* The components of the vectors, end to end (lines 1066-1068, 1070-1072).
Flatten(vectors) ==
    AsTuple([q \in 1..(Len(vectors) * 3) |->
                vectors[((q - 1) \div 3) + 1][((q - 1) % 3) + 1]])

\* Lines 1074-1091: the attribute name given the values, or created with them.
SetVectorAttribute(attributes, name, values) ==
    IF HasAttr(attributes, name)
    THEN [attributes EXCEPT ![AttrIndex(attributes, name)].values = values]
    ELSE Append(attributes, NewVectorAttribute(name, values))

\* The attribute name is missing, or has not cpa components a vertex, or
\* has a number of values that is no multiple of cpa (lines 974-993).
AttributeIsUnfit(attributes, name, cpa) ==
    \/ ~HasAttr(attributes, name)
    \/ GetAttr(attributes, name).componentsPerAttribute # cpa
    \/ Len(GetAttr(attributes, name).values) % cpa # 0

\* Lines 969-1094 for a defined geometry: [threw, geometry].
computeTangentAndBinormal(g) ==
    IF \/ AttributeIsUnfit(g.attributes, "position", 3)
       \/ AttributeIsUnfit(g.attributes, "normal", 3)
       \/ AttributeIsUnfit(g.attributes, "st", 2)
    THEN [threw |-> TRUE, geometry |-> g]
    ELSE IF NotApplicable(g)
    THEN [threw |-> FALSE, geometry |-> g]
    ELSE
    LET vertices == GetAttr(g.attributes, "position").values
        normals == GetAttr(g.attributes, "normal").values
        st == GetAttr(g.attributes, "st").values
        indices == Val(g.indexList)
        numVertices == Len(vertices) \div 3
        tan1 == Tan1Loop(vertices, st, indices, 0,
                         CommonDenominator(vertices, st, indices, 0),
                         [v \in 1..numVertices |->
                             [finite |-> TRUE, vector |-> <<0, 0, 0>>]])
        tangents == [v \in 1..numVertices |->
                        VertexTangent(normals, tan1, v - 1)]
        binormals == [v \in 1..numVertices |->
                         VertexBinormal(normals, tangents[v], v - 1)]
    IN  [threw |-> FALSE,
         geometry |->
            [g EXCEPT !.attributes =
                SetVectorAttribute(
                    SetVectorAttribute(@, "tangent", Flatten(tangents)),
                    "binormal", Flatten(binormals))]]

(***************************************************************************)
(* The meshes the callers pass.                                            *)
(***************************************************************************)
\* Vertex data: every component of every vertex of every attribute carries a
\* value of its own, so that a block identifies the vertex it belongs to.
Values(base, count) == AsTuple([j \in 1..count |-> base + j - 1])

Attribute(name, datatype, cpa, normalize, base, numVertices) ==
    [name |-> name, componentDatatype |-> datatype,
     componentsPerAttribute |-> cpa, normalize |-> normalize,
     values |-> Values(base, cpa * numVertices)]

Position(n) == Attribute("position", "FLOAT", 3, FALSE, 100, n)
St(n) == Attribute("st", "FLOAT", 2, FALSE, 200, n)

\* Attribute maps of n vertices; the last one breaks the Geometry invariant
\* (its attributes disagree on the vertex count).
AttributeMaps(n) ==
    {<<>>, <<Position(n)>>, <<Position(n), St(n)>>, <<Position(n), St(n + 1)>>}

SeqsUpTo(S, n) == UNION {[1..k -> S] : k \in 0..n}

PrimitiveTypes == {"TRIANGLES", "TRIANGLE_STRIP", "TRIANGLE_FAN", "LINES"}

Geometry(attributes, indexList, primitiveType, boundingSphere) ==
    [attributes |-> attributes, indexList |-> indexList,
     primitiveType |-> primitiveType, boundingSphere |-> boundingSphere]

\* Index lists may name a vertex the mesh does not have (index = vertex count).
ReorderMeshes ==
    {Geometry(a, il, "TRIANGLES", None) :
        a \in UNION {AttributeMaps(n) : n \in 0..MaxVertices},
        il \in {None} \cup {Some(s) : s \in SeqsUpTo(0..MaxVertices, MaxIndices)}}

\* Triangle lists: index lists of whole triangles.
TriangleLists(S, n) == UNION {[1..(3 * k) -> S] : k \in 0..n}

\* The triangles it takes to reference every vertex of a mesh just over the
\* chunk limit.
FitTriangles == (sixtyFourK + 3) \div 3

\* Meshes over the chunk limit, of every triangle list over their vertices;
\* and of every single triangle over their vertices and one index past them.
FitMeshesOverLimit ==
    {Geometry(<<St(sixtyFourK + 1), Position(sixtyFourK + 1)>>, Some(il),
              "TRIANGLES", None) :
        il \in TriangleLists(0..sixtyFourK, FitTriangles)}

FitMeshesIndexOutOfRange ==
    {Geometry(<<St(sixtyFourK + 1), Position(sixtyFourK + 1)>>, Some(il),
              "TRIANGLES", None) :
        il \in {t \in TriangleLists(0..(sixtyFourK + 1), 1) :
                  \E k \in 1..Len(t) : t[k] = sixtyFourK + 1}}

\* Meshes of every size up to two past the limit, with every primitive type,
\* with and without an index list.
FitMeshesAround ==
    {Geometry(a, il, pt, None) :
        a \in UNION {AttributeMaps(n) : n \in 0..(sixtyFourK + 2)},
        il \in {None} \cup {Some(s) : s \in TriangleLists(0..1, 1)},
        pt \in PrimitiveTypes}

\* Model matrices, column-major.
Translation == <<1, 0, 0, 0,  0, 1, 0, 0,  0, 0, 1, 0,  5, 0, 0, 1>>

\* Attribute maps of n vertices that differ in which attributes they have,
\* in their order, and in the datatype, component count and normalization of
\* the attribute st.
CombineAttributeMaps(n) ==
    {<<Position(n), St(n)>>,
     <<St(n), Position(n)>>,
     <<Position(n)>>,
     <<Position(n), Attribute("st", "FLOAT", 2, TRUE, 200, n)>>,
     <<Position(n), Attribute("st", "UNSIGNED_BYTE", 2, FALSE, 200, n)>>,
     <<Position(n), Attribute("st", "FLOAT", 1, FALSE, 200, n)>>}

\* Geometries of one or two vertices, with valid indices, with and without a
\* bounding sphere; and one without an index list.
CombineGeometries ==
    {Geometry(a, Some(<<0, 0>>), "TRIANGLES", bs) :
        a \in CombineAttributeMaps(1), bs \in {None, Some([lo |-> 0, hi |-> 2])}}
    \cup
    {Geometry(a, Some(<<1, 0, 1>>), "TRIANGLES", bs) :
        a \in {<<Position(2), St(2)>>, <<Position(2)>>},
        bs \in {None, Some([lo |-> 1, hi |-> 4])}}
    \cup
    {Geometry(<<Position(1), St(1)>>, None, "TRIANGLES", None)}

\* A geometry of Uint16Modulus vertices, whose last index is the largest an
\* unsigned short holds.
BigGeometry ==
    Geometry(<<Attribute("st", "FLOAT", 1, FALSE, 0, Uint16Modulus)>>,
             Some(<<Uint16Modulus - 1, 0>>), "TRIANGLES", None)

\* A geometry of one vertex and SixtyK indices: with it the index buffer of
\* the result is a Uint32Array.
ManyIndicesGeometry ==
    Geometry(<<Attribute("st", "FLOAT", 1, FALSE, 0, 1)>>,
             Some(AsTuple([q \in 1..SixtyK |-> 0])), "TRIANGLES", None)

CombineInstances == CombineGeometries \X {IDENTITY, Translation}

\* The instance BigGeometry is combined with.
BigPartner ==
    <<Geometry(<<Position(1), Attribute("st", "FLOAT", 1, FALSE, 200, 1)>>,
               Some(<<0, 0>>), "TRIANGLES", None), IDENTITY>>

CombineInstanceLists == SeqsUpTo(CombineInstances, MaxInstances)

BigInstanceFirst == <<<<BigGeometry, IDENTITY>>, BigPartner>>
BigInstanceLast == <<BigPartner, <<BigGeometry, IDENTITY>>>>
BigInstanceAndManyIndices ==
    <<<<BigGeometry, IDENTITY>>, <<ManyIndicesGeometry, IDENTITY>>>>

(***************************************************************************)
(* The calls.                                                              *)
(***************************************************************************)
InitReorder ==
    /\ instance = None /\ instance0 = None /\ tables = None /\ attributeNames = None
    /\ op = "reorderForPreVertexCache"
    /\ pc = "ready"
    /\ ret = None
    /\ instancesArg = None
    /\ \/ /\ mesh = None
          /\ heap = <<>>
       \/ /\ mesh = Some(1)
          /\ \E g \in ReorderMeshes : heap = <<g>>
    /\ heap0 = heap

ReorderForPreVertexCache ==
    /\ pc = "ready"
    /\ op = "reorderForPreVertexCache"
    /\ IF ~IsDefined(mesh)
       THEN /\ pc' = "returned"
            /\ ret' = None
            /\ heap' = heap
       ELSE LET r == reorderForPreVertexCache(heap[Val(mesh)])
            IN  /\ pc' = IF r.threw THEN "threw" ELSE "returned"
                /\ ret' = IF r.threw THEN None ELSE Some(Val(mesh))
                /\ heap' = [heap EXCEPT ![Val(mesh)] = r.geometry]
    /\ UNCHANGED <<heap0, mesh, instancesArg, instance, instance0, tables, attributeNames, op>>

NextReorder == ReorderForPreVertexCache

SpecReorder == InitReorder /\ [][NextReorder]_vars

InitFit ==
    /\ instance = None /\ instance0 = None /\ tables = None /\ attributeNames = None
    /\ op = "fitToUnsignedShortIndices"
    /\ pc = "ready"
    /\ ret = None
    /\ instancesArg = None
    /\ \/ /\ mesh = None
          /\ heap = <<>>
       \/ /\ mesh = Some(1)
          /\ \/ \E g \in FitMeshesOverLimit : heap = <<g>>
             \/ \E g \in FitMeshesIndexOutOfRange : heap = <<g>>
             \/ \E g \in FitMeshesAround : heap = <<g>>
    /\ heap0 = heap

\* The chunks are new objects; a mesh that needs no split is returned itself.
FitToUnsignedShortIndices ==
    /\ pc = "ready"
    /\ op = "fitToUnsignedShortIndices"
    /\ IF ~IsDefined(mesh)
       THEN /\ pc' = "returned"
            /\ ret' = Some(<<>>)
            /\ heap' = heap
       ELSE LET r == fitToUnsignedShortIndices(heap[Val(mesh)])
            IN  /\ pc' = IF r.threw THEN "threw" ELSE "returned"
                /\ heap' = heap \o r.geometries
                /\ ret' = IF r.threw THEN None
                          ELSE IF r.split
                          THEN Some([n \in 1..Len(r.geometries) |-> Len(heap) + n])
                          ELSE Some(<<Val(mesh)>>)
    /\ UNCHANGED <<heap0, mesh, instancesArg, instance, instance0, tables, attributeNames, op>>

NextFit == FitToUnsignedShortIndices

SpecFit == InitFit /\ [][NextFit]_vars

\* The caller's list l of <<geometry, modelMatrix>>: every instance has a
\* Geometry object of its own.
CombineArguments(l) ==
    /\ heap = [i \in 1..Len(l) |-> l[i][1]]
    /\ instancesArg = Some([i \in 1..Len(l) |->
                              [geometry |-> i, modelMatrix |-> l[i][2]]])

InitCombine ==
    /\ instance = None /\ instance0 = None /\ tables = None /\ attributeNames = None
    /\ op = "combine"
    /\ pc = "ready"
    /\ ret = None
    /\ mesh = None
    /\ \/ /\ instancesArg = None
          /\ heap = <<>>
       \/ \E l \in CombineInstanceLists : CombineArguments(l)
       \/ CombineArguments(BigInstanceFirst)
       \/ CombineArguments(BigInstanceLast)
       \/ CombineArguments(BigInstanceAndManyIndices)
    /\ heap0 = heap

Combine ==
    /\ pc = "ready"
    /\ op = "combine"
    /\ LET r == combine(heap, instancesArg)
       IN  /\ pc' = IF r.threw THEN "threw" ELSE "returned"
           /\ heap' = IF r.isNew THEN Append(heap, Val(r.geometry)) ELSE heap
           /\ ret' = IF r.threw THEN None
                     ELSE IF r.isNew THEN Some(Len(heap) + 1)
                     ELSE Some(r.ref)
    /\ UNCHANGED <<heap0, mesh, instancesArg, instance, instance0, tables, attributeNames, op>>

NextCombine == Combine

SpecCombine == InitCombine /\ [][NextCombine]_vars

\* Meshes of every primitive type, with and without an index list; the
\* index lists are of every length up to MaxWireframeIndices.
WireframeMeshes ==
    {Geometry(<<Position(MaxVertices)>>, il, pt, None) :
        il \in {None} \cup {Some(x) : x \in SeqsUpTo(0..(MaxVertices - 1),
                                                      MaxWireframeIndices)},
        pt \in PrimitiveTypes}

InitWireframe ==
    /\ instance = None /\ instance0 = None /\ tables = None /\ attributeNames = None
    /\ op = "toWireframe"
    /\ pc = "ready"
    /\ ret = None
    /\ instancesArg = None
    /\ \/ /\ mesh = None
          /\ heap = <<>>
       \/ /\ mesh = Some(1)
          /\ \E g \in WireframeMeshes : heap = <<g>>
    /\ heap0 = heap

\* Lines 60-131: the mesh is modified in place and returned.
ToWireframe ==
    /\ pc = "ready"
    /\ op = "toWireframe"
    /\ pc' = "returned"
    /\ ret' = mesh
    /\ heap' = IF IsDefined(mesh)
               THEN [heap EXCEPT ![Val(mesh)] = toWireframe(heap[Val(mesh)])]
               ELSE heap
    /\ UNCHANGED <<heap0, mesh, instancesArg, instance, instance0, tables, attributeNames, op>>

NextWireframe == ToWireframe

SpecWireframe == InitWireframe /\ [][NextWireframe]_vars

\* The tables the callers pass: indices gives some attribute names a slot
\* number, map gives some attribute names a new key.
AttributeNames == {"position", "normal", "st"}
MappedKeys == {"a", "b"}

IndexTables ==
    UNION {[names -> 0..1] : names \in SUBSET AttributeNames}

\* The maps of up to MaxMapEntries properties, in every enumeration order.
MapTables ==
    {m \in SeqsUpTo(AttributeNames \X MappedKeys, MaxMapEntries) :
        \A i, j \in 1..Len(m) : i # j => m[i][1] # m[j][1]}

InitMap ==
    /\ instance = None /\ instance0 = None /\ attributeNames = None
    /\ op = "mapAttributeIndices"
    /\ pc = "ready"
    /\ ret = None
    /\ instancesArg = None
    /\ mesh = None
    /\ heap = <<>>
    /\ heap0 = heap
    /\ \E indices \in {None} \cup {Some(x) : x \in IndexTables},
          map \in {None} \cup {Some(x) : x \in MapTables} :
            tables = [indices |-> indices, map |-> map]

MapAttributeIndices ==
    /\ pc = "ready"
    /\ op = "mapAttributeIndices"
    /\ pc' = "returned"
    /\ ret' = Some(mapAttributeIndices(tables.indices, tables.map))
    /\ UNCHANGED <<heap, heap0, mesh, instancesArg, instance, instance0, tables, attributeNames, op>>

NextMap == MapAttributeIndices

SpecMap == InitMap /\ [][NextMap]_vars

\* Model matrices that are not translations: a quarter turn about z, and a
\* shear (whose inverse transpose differs from it).
QuarterTurn == <<0, 1, 0, 0,  -1, 0, 0, 0,  0, 0, 1, 0,  0, 0, 0, 1>>
Shear == <<1, 0, 0, 0,  1, 1, 0, 0,  0, 0, 1, 0,  0, 0, 0, 1>>
ModelMatrices == {IDENTITY, Translation, QuarterTurn, Shear}

Vectors(name, base, n) == Attribute(name, "FLOAT", 3, FALSE, base, n)

\* An attribute that is described but has no values (values is undefined).
Unfilled(name, cpa) ==
    [name |-> name, componentDatatype |-> "FLOAT",
     componentsPerAttribute |-> cpa, normalize |-> FALSE]

\* Geometries of up to MaxVertices vertices with and without the attributes
\* the filter transforms (some of them without values), and with and without
\* a bounding sphere.
TransformGeometries ==
    {Geometry(a, None, "TRIANGLES", bs) :
        a \in UNION {{<<Position(n)>>,
                      <<Position(n), Vectors("normal", 300, n)>>,
                      <<Vectors("normal", 300, n), St(n)>>,
                      <<Position(n), St(n), Vectors("tangent", 400, n)>>,
                      <<Position(n), Vectors("normal", 300, n),
                        Vectors("binormal", 500, n),
                        Vectors("tangent", 400, n)>>,
                      <<St(n)>>,
                      <<Position(n), Unfilled("normal", 3)>>,
                      <<Unfilled("position", 3), Vectors("normal", 300, n)>>,
                      <<Position(n), Vectors("normal", 300, n),
                        Unfilled("tangent", 3)>>,
                      <<Position(n), Unfilled("binormal", 3),
                        Vectors("tangent", 400, n)>>} : n \in 1..MaxVertices},
        bs \in {None, Some([center |-> <<1, 2, 3>>, radius |-> 4])}}

InitTransform ==
    /\ tables = None /\ attributeNames = None
    /\ op = "transformToWorldCoordinates"
    /\ pc = "ready"
    /\ ret = None
    /\ instancesArg = None
    /\ mesh = None
    /\ \/ /\ instance = None
          /\ heap = <<>>
       \/ \E g \in TransformGeometries, m \in ModelMatrices :
             /\ heap = <<g>>
             /\ instance = Some([geometry |-> 1, modelMatrix |-> m])
    /\ heap0 = heap
    /\ instance0 = instance

\* The value the filter returns when it returns its argument.
TheInstance == "instance"

\* Lines 564-606.
TransformToWorldCoordinates ==
    /\ pc = "ready"
    /\ op = "transformToWorldCoordinates"
    /\ LET r == transformToWorldCoordinates(heap, instance)
       IN  /\ pc' = IF r.threw THEN "threw" ELSE "returned"
           /\ ret' = IF r.returned THEN Some(TheInstance) ELSE None
           /\ heap' = r.heap
           /\ instance' = r.instance
    /\ UNCHANGED <<heap0, mesh, instancesArg, instance0, tables, attributeNames, op>>

\* The caller calls the filter again on the instance it has just passed;
\* heap0 and instance0 are the objects as they are before this second call.
TransformAgain ==
    /\ pc = "returned"
    /\ op = "transformToWorldCoordinates"
    /\ LET r == transformToWorldCoordinates(heap, instance)
       IN  /\ pc' = IF r.threw THEN "threw" ELSE "returned again"
           /\ ret' = IF r.returned THEN Some(TheInstance) ELSE None
           /\ heap' = r.heap
           /\ instance' = r.instance
    /\ heap0' = heap
    /\ instance0' = instance
    /\ UNCHANGED <<mesh, instancesArg, tables, attributeNames, op>>

NextTransform == TransformToWorldCoordinates \/ TransformAgain

SpecTransform == InitTransform /\ [][NextTransform]_vars

\* The meshes given to computeNormal and to computeTangentAndBinormal: four
\* vertices, the corners of a tetrahedron at the origin, with a normal and
\* texture coordinates each.
Raw(name, cpa, values) ==
    [name |-> name, componentDatatype |-> "FLOAT", componentsPerAttribute |-> cpa,
     normalize |-> FALSE, values |-> values]

CornerPositions == <<0, 0, 0,  1, 0, 0,  0, 1, 0,  0, 0, 1>>
CornerNormals == <<0, 0, 1,  0, 0, 1,  0, 1, 0,  1, 0, 0>>
CornerSt == <<0, 0,  1, 0,  0, 1,  1, 1>>

\* Triangles on these vertices: faces of the tetrahedron in either winding,
\* a triangle with a vertex twice, and one with an index that is no vertex.
Faces ==
    {<<0, 1, 2>>, <<0, 2, 1>>, <<0, 1, 3>>, <<1, 2, 3>>, <<0, 3, 2>>,
     <<2, 1, 3>>, <<0, 0, 1>>, <<0, 1, 4>>}

RECURSIVE Concat(_)
Concat(ss) == IF ss = <<>> THEN <<>> ELSE Head(ss) \o Concat(Tail(ss))

FaceLists == {Concat(fs) : fs \in SeqsUpTo(Faces, MaxTriangles)}

\* Index lists that are no whole number of triangles.
BrokenLists == {<<0>>, <<0, 1>>, <<0, 1, 2, 0>>}

SynthesisIndexLists ==
    {None} \cup {Some(x) : x \in FaceLists \cup BrokenLists}
FewIndexLists ==
    {None, Some(<<>>), Some(<<0, 1>>), Some(<<0, 1, 2>>), Some(<<0, 1, 2, 0>>)}

\* Attribute maps computeNormal accepts, and maps it rejects.
NormalAttributeMaps ==
    {<<Raw("position", 3, CornerPositions)>>,
     <<Raw("position", 3, CornerPositions), Raw("normal", 3, CornerNormals)>>,
     <<Raw("st", 2, CornerSt), Raw("position", 3, CornerPositions)>>}
BadNormalAttributeMaps ==
    {<<>>,
     <<Raw("st", 2, CornerSt)>>,
     <<Raw("position", 2, CornerPositions)>>,
     <<Raw("position", 3, <<0, 0, 0, 1>>)>>}

NormalMeshes ==
    {Geometry(a, il, "TRIANGLES", None) :
        a \in NormalAttributeMaps, il \in SynthesisIndexLists}
    \cup
    {Geometry(a, il, pt, None) :
        a \in NormalAttributeMaps \cup BadNormalAttributeMaps,
        il \in FewIndexLists, pt \in PrimitiveTypes}

InitNormal ==
    /\ instance = None /\ instance0 = None /\ tables = None /\ attributeNames = None
    /\ op = "computeNormal"
    /\ pc = "ready"
    /\ ret = None
    /\ instancesArg = None
    /\ \/ /\ mesh = None
          /\ heap = <<>>
       \/ /\ mesh = Some(1)
          /\ \E g \in NormalMeshes : heap = <<g>>
    /\ heap0 = heap

\* Lines 820-940: the mesh is modified in place and returned.
ComputeNormal ==
    /\ pc = "ready"
    /\ op = "computeNormal"
    /\ IF ~IsDefined(mesh)
       THEN /\ pc' = "threw"
            /\ ret' = None
            /\ heap' = heap
       ELSE LET r == computeNormal(heap[Val(mesh)])
            IN  /\ pc' = IF r.threw THEN "threw" ELSE "returned"
                /\ ret' = IF r.threw THEN None ELSE mesh
                /\ heap' = [heap EXCEPT ![Val(mesh)] = r.geometry]
    /\ UNCHANGED <<heap0, mesh, instancesArg, instance, instance0, tables, attributeNames, op>>

NextNormal == ComputeNormal

SpecNormal == InitNormal /\ [][NextNormal]_vars

\* Attribute maps computeTangentAndBinormal is documented to accept: the
\* three attributes it reads, of four vertices each.
TangentAttributeMaps ==
    {<<Raw("position", 3, CornerPositions), Raw("normal", 3, CornerNormals),
       Raw("st", 2, CornerSt)>>,
     <<Raw("st", 2, CornerSt), Raw("tangent", 3, CornerNormals),
       Raw("position", 3, CornerPositions), Raw("normal", 3, CornerNormals),
       Raw("binormal", 3, CornerNormals)>>}

\* Maps in which the three attributes are not of the same number of vertices.
MismatchedAttributeMaps ==
    {<<Raw("position", 3, CornerPositions),
       Raw("normal", 3, SubSeq(CornerNormals, 1, 9)), Raw("st", 2, CornerSt)>>,
     <<Raw("position", 3, CornerPositions), Raw("normal", 3, CornerNormals),
       Raw("st", 2, SubSeq(CornerSt, 1, 6))>>,
     <<Raw("position", 3, SubSeq(CornerPositions, 1, 9)),
       Raw("normal", 3, CornerNormals), Raw("st", 2, CornerSt)>>}

\* Maps with an attribute missing, of the wrong number of components, or
\* with values that are no whole number of vertices.
BadTangentAttributeMaps ==
    {<<Raw("normal", 3, CornerNormals), Raw("st", 2, CornerSt)>>,
     <<Raw("position", 3, CornerPositions), Raw("st", 2, CornerSt)>>,
     <<Raw("position", 3, CornerPositions), Raw("normal", 3, CornerNormals)>>,
     <<Raw("position", 2, CornerPositions), Raw("normal", 3, CornerNormals),
       Raw("st", 2, CornerSt)>>,
     <<Raw("position", 3, CornerPositions), Raw("normal", 4, CornerNormals),
       Raw("st", 2, CornerSt)>>,
     <<Raw("position", 3, CornerPositions), Raw("normal", 3, CornerNormals),
       Raw("st", 1, CornerSt)>>,
     <<Raw("position", 3, <<0, 0, 0, 1>>), Raw("normal", 3, CornerNormals),
       Raw("st", 2, CornerSt)>>,
     <<Raw("position", 3, CornerPositions), Raw("normal", 3, <<0, 0, 1, 0>>),
       Raw("st", 2, CornerSt)>>,
     <<Raw("position", 3, CornerPositions), Raw("normal", 3, CornerNormals),
       Raw("st", 2, <<0, 0, 1>>)>>}

TangentMeshes ==
    {Geometry(a, il, "TRIANGLES", None) :
        a \in TangentAttributeMaps, il \in SynthesisIndexLists}
    \cup
    {Geometry(a, il, pt, None) :
        a \in TangentAttributeMaps \cup MismatchedAttributeMaps
                \cup BadTangentAttributeMaps,
        il \in FewIndexLists, pt \in PrimitiveTypes}

InitTangent ==
    /\ instance = None /\ instance0 = None /\ tables = None /\ attributeNames = None
    /\ op = "computeTangentAndBinormal"
    /\ pc = "ready"
    /\ ret = None
    /\ instancesArg = None
    /\ \/ /\ mesh = None
          /\ heap = <<>>
       \/ /\ mesh = Some(1)
          /\ \E g \in TangentMeshes : heap = <<g>>
    /\ heap0 = heap

\* Lines 969-1094: the geometry is modified in place and returned.
ComputeTangentAndBinormal ==
    /\ pc = "ready"
    /\ op = "computeTangentAndBinormal"
    /\ IF ~IsDefined(mesh)
       THEN /\ pc' = "threw"
            /\ ret' = None
            /\ heap' = heap
       ELSE LET r == computeTangentAndBinormal(heap[Val(mesh)])
            IN  /\ pc' = IF r.threw THEN "threw" ELSE "returned"
                /\ ret' = IF r.threw THEN None ELSE mesh
                /\ heap' = [heap EXCEPT ![Val(mesh)] = r.geometry]
    /\ UNCHANGED <<heap0, mesh, instancesArg, instance, instance0, tables, attributeNames, op>>

NextTangent == ComputeTangentAndBinormal

SpecTangent == InitTangent /\ [][NextTangent]_vars

\* The two filters that synthesize attributes.
InitSynthesis == InitNormal \/ InitTangent

NextSynthesis == ComputeNormal \/ ComputeTangentAndBinormal

SpecSynthesis == InitSynthesis /\ [][NextSynthesis]_vars

\* ---- encodeAttribute ----
\* Values on either side of zero and of EncodeUnit.
EncodePositions == <<70000, -70000, 5>>
EncodeSt == <<65536, -1>>
EncodeColor == Attribute("color", "UNSIGNED_BYTE", 4, TRUE, 0, 1)

EncodeAttributeMaps ==
    {<<>>,
     <<Raw("position", 3, EncodePositions)>>,
     <<Raw("position", 3, EncodePositions), Raw("st", 2, EncodeSt)>>,
     <<Raw("position", 3, EncodePositions), EncodeColor>>,
     <<Unfilled("position", 3)>>,
     <<Raw("st", 2, EncodeSt), Unfilled("position", 3)>>,
     <<Raw("position", 3, EncodePositions),
       Raw("positionHigh", 3, <<1, 2, 3>>)>>}

EncodeMeshes ==
    {Geometry(a, il, "TRIANGLES", None) :
        a \in EncodeAttributeMaps, il \in {None, Some(<<0, 0, 0>>)}}

\* The name arguments; each may be left out.
EncodeNames ==
    [name : {None, Some("position"), Some("st"), Some("color")},
     high : {None, Some("stHigh"), Some("position")},
     low : {None, Some("stLow"), Some("st")}]

InitEncode ==
    /\ instance = None /\ instance0 = None /\ tables = None
    /\ op = "encodeAttribute"
    /\ pc = "ready"
    /\ ret = None
    /\ instancesArg = None
    /\ attributeNames \in EncodeNames
    /\ \/ /\ mesh = None
          /\ heap = <<>>
       \/ /\ mesh = Some(1)
          /\ \E g \in EncodeMeshes : heap = <<g>>
    /\ heap0 = heap

\* Lines 484-527: the mesh is modified in place and returned.
EncodeAttribute ==
    /\ pc = "ready"
    /\ op = "encodeAttribute"
    /\ IF ~IsDefined(mesh)
       THEN /\ pc' = "threw"
            /\ ret' = None
            /\ heap' = heap
       ELSE LET r == encodeAttribute(heap[Val(mesh)], attributeNames.name,
                                     attributeNames.high, attributeNames.low)
            IN  /\ pc' = IF r.threw THEN "threw" ELSE "returned"
                /\ ret' = IF r.threw THEN None ELSE mesh
                /\ heap' = [heap EXCEPT ![Val(mesh)] = r.geometry]
    /\ UNCHANGED <<heap0, mesh, instancesArg, instance, instance0, tables, attributeNames, op>>

NextEncode == EncodeAttribute

SpecEncode == InitEncode /\ [][NextEncode]_vars

Init ==
    \/ InitReorder
    \/ InitFit
    \/ InitCombine
    \/ InitWireframe
    \/ InitMap
    \/ InitTransform
    \/ InitNormal
    \/ InitTangent
    \/ InitEncode

Next ==
    \/ ReorderForPreVertexCache
    \/ FitToUnsignedShortIndices
    \/ Combine
    \/ ToWireframe
    \/ MapAttributeIndices
    \/ TransformToWorldCoordinates
    \/ TransformAgain
    \/ ComputeNormal
    \/ ComputeTangentAndBinormal
    \/ EncodeAttribute

Spec == Init /\ [][Next]_vars

(***************************************************************************)
(* reorderForPreVertexCache: properties.                                   *)
(***************************************************************************)
In0 == heap0[Val(mesh)]      \* the mesh as it was passed
Out == heap[Val(mesh)]       \* the same object after the call

ReorderCalled == op = "reorderForPreVertexCache" /\ IsDefined(mesh)
ReorderReturned == ReorderCalled /\ pc = "returned"

\* The vertex count of a mesh whose attributes agree on it.
HasVertexCount(g) == ~computeNumberOfVertices(g).threw
VertexCount(g) == computeNumberOfVertices(g).value

ValidIndices(g) ==
    /\ IsDefined(g.indexList)
    /\ HasVertexCount(g)
    /\ \A k \in 1..Len(Val(g.indexList)) : Val(g.indexList)[k] < VertexCount(g)

\* Some index names a vertex the mesh (which has attributes) does not have.
HasIndexOutOfRange(g) ==
    /\ IsDefined(g.indexList)
    /\ HasVertexCount(g)
    /\ g.attributes # <<>>
    /\ \E k \in 1..Len(Val(g.indexList)) : Val(g.indexList)[k] >= VertexCount(g)

\* C1: after reorderForPreVertexCache on a mesh whose indices are all below
\* the vertex count, the index list has its old length and, at every position
\* k of the index stream and for every attribute, the block at the new index
\* in the reordered values is the block at the old index in the old values.
C1_ReorderKeepsCorrespondence ==
    (ReorderReturned /\ ValidIndices(In0)) =>
        /\ IsDefined(Out.indexList)
        /\ Len(Val(Out.indexList)) = Len(Val(In0.indexList))
        /\ Len(Out.attributes) = Len(In0.attributes)
        /\ \A k \in 1..Len(Val(In0.indexList)) :
             \A p \in 1..Len(In0.attributes) :
                /\ Out.attributes[p].name = In0.attributes[p].name
                /\ Block(Out.attributes[p].values,
                         In0.attributes[p].componentsPerAttribute,
                         Val(Out.indexList)[k])
                   = Block(In0.attributes[p].values,
                           In0.attributes[p].componentsPerAttribute,
                           Val(In0.indexList)[k])

\* A mesh of two attributes whose vertices were really renumbered.
C1_Witness ==
    /\ ReorderReturned
    /\ ValidIndices(In0)
    /\ Len(In0.attributes) = 2
    /\ Len(Val(In0.indexList)) >= 3
    /\ Val(Out.indexList) # Val(In0.indexList)
    /\ Out.attributes # In0.attributes

\* C2: a call of reorderForPreVertexCache whose index list holds an index
\* greater than or equal to the vertex count ends in an error, never in a
\* normal return.
C2_ReorderThrowsOnIndexOutOfRange ==
    (ReorderCalled /\ pc # "ready" /\ HasIndexOutOfRange(In0)) => pc = "threw"

\* C3: reorderForPreVertexCache on a mesh without an index list returns the
\* same mesh with every attribute's values unchanged and still no index list.
C3_ReorderNoOpWithoutIndexList ==
    (ReorderReturned /\ ~IsDefined(In0.indexList)) =>
        /\ ret = mesh
        /\ Out = In0

(***************************************************************************)
(* fitToUnsignedShortIndices: properties.                                  *)
(***************************************************************************)
FitCalled == op = "fitToUnsignedShortIndices" /\ IsDefined(mesh)
FitReturned == FitCalled /\ pc = "returned"

\* The mesh passed is one the filter partitions.
FitOverLimit ==
    /\ In0.primitiveType = "TRIANGLES"
    /\ IsDefined(In0.indexList)
    /\ HasVertexCount(In0)
    /\ VertexCount(In0) > sixtyFourK

\* What a mesh draws: for every position of its index list, the block of
\* every attribute (by name) at that index.
Resolved(g) ==
    [k \in 1..Len(Val(g.indexList)) |->
        [p \in 1..Len(g.attributes) |->
            <<g.attributes[p].name,
              Block(g.attributes[p].values,
                    g.attributes[p].componentsPerAttribute,
                    Val(g.indexList)[k])>>]]

RECURSIVE ConcatResolved(_)
ConcatResolved(ids) ==
    IF ids = <<>> THEN <<>>
    ELSE Resolved(heap[Head(ids)]) \o ConcatResolved(Tail(ids))

\* The number of indices in the first n chunks returned.
RECURSIVE IndicesBefore(_, _)
IndicesBefore(ids, n) ==
    IF n = 0 THEN 0
    ELSE IndicesBefore(ids, n - 1) + Len(Val(heap[ids[n]].indexList))

\* C4: when fitToUnsignedShortIndices partitions a TRIANGLES mesh of valid
\* indices, the chunks' triangles, taken in chunk order and resolved to the
\* attribute blocks of their chunk, are exactly the original triangles
\* resolved to the attribute blocks of the original mesh.
C4_FitKeepsTriangles ==
    (FitCalled /\ pc # "ready" /\ FitOverLimit /\ ValidIndices(In0)
        /\ Len(Val(In0.indexList)) % 3 = 0) =>
        /\ pc = "returned"
        /\ \A n \in 1..Len(Val(ret)) :
              Len(Val(heap[Val(ret)[n]].indexList)) % 3 = 0
        /\ ConcatResolved(Val(ret)) = Resolved(In0)

\* A mesh split into two chunks or more, the later ones renumbered.
C4_Witness ==
    /\ FitReturned /\ FitOverLimit /\ ValidIndices(In0)
    /\ Len(Val(ret)) >= 2
    /\ \E n \in 2..Len(Val(ret)) :
          Val(heap[Val(ret)[n]].indexList)
            # SubSeq(Val(In0.indexList), IndicesBefore(Val(ret), n - 1) + 1,
                     IndicesBefore(Val(ret), n))

\* C5: every chunk of a partitioned mesh has at most sixtyFourK vertices,
\* every index of a chunk is below the chunk's vertex count, every chunk's
\* index list is a whole number of triangles, and the three indices of every
\* input triangle are in one chunk.
C5_FitChunksWithinLimit ==
    (FitReturned /\ FitOverLimit) =>
        /\ \A n \in 1..Len(Val(ret)) :
              LET chunk == heap[Val(ret)[n]] IN
              /\ chunk.attributes # <<>>
              /\ HasVertexCount(chunk)
              /\ VertexCount(chunk) <= sixtyFourK
              /\ \A p \in 1..Len(chunk.attributes) :
                    Len(chunk.attributes[p].values)
                      = VertexCount(chunk) * chunk.attributes[p].componentsPerAttribute
              /\ Len(Val(chunk.indexList)) % 3 = 0
              /\ \A k \in 1..Len(Val(chunk.indexList)) :
                    /\ Val(chunk.indexList)[k] >= 0
                    /\ Val(chunk.indexList)[k] < VertexCount(chunk)
        /\ IndicesBefore(Val(ret), Len(Val(ret))) = Len(Val(In0.indexList))
        /\ \A t \in 0..((Len(Val(In0.indexList)) \div 3) - 1) :
              \E n \in 1..Len(Val(ret)) :
                 /\ IndicesBefore(Val(ret), n - 1) < 3 * t + 1
                 /\ 3 * t + 3 <= IndicesBefore(Val(ret), n)

\* A chunk of two triangles filled to the limit.
C5_Witness ==
    /\ FitReturned /\ FitOverLimit
    /\ \E n \in 1..Len(Val(ret)) :
          /\ VertexCount(heap[Val(ret)[n]]) = sixtyFourK
          /\ Len(Val(heap[Val(ret)[n]].indexList)) > 3

\* The mesh passed is within the limit or has no index list.
FitWithinLimit ==
    /\ HasVertexCount(In0)
    /\ VertexCount(In0) <= sixtyFourK \/ ~IsDefined(In0.indexList)

FitPassedThrough ==
    /\ pc = "returned"
    /\ ret = Some(<<Val(mesh)>>)
    /\ heap = heap0

\* C6 as stated: every mesh whose vertex count does not exceed the limit, or
\* that has no index list, is passed through: the result is the one-element
\* list of the input mesh, unmodified.
C6_FitPassesThroughAnyType ==
    (FitCalled /\ pc # "ready" /\ FitWithinLimit) => FitPassedThrough

\* C6, amended: a TRIANGLES mesh whose vertex count does not exceed the
\* limit, or that has no index list, is passed through: the result is the
\* one-element list of the input mesh, unmodified; a mesh of any other
\* primitive type makes the call fail instead, with the mesh unmodified.
C6_FitPassesThroughTriangles ==
    (FitCalled /\ pc # "ready" /\ FitWithinLimit) =>
        IF In0.primitiveType = "TRIANGLES"
        THEN FitPassedThrough
        ELSE pc = "threw" /\ heap = heap0

\* A mesh of exactly sixtyFourK vertices, with an index list, passed through.
C6_Witness ==
    /\ FitReturned /\ FitWithinLimit
    /\ IsDefined(In0.indexList)
    /\ VertexCount(In0) = sixtyFourK
    /\ FitPassedThrough

(***************************************************************************)
(* combine: properties.                                                    *)
(***************************************************************************)
CombineCalled == op = "combine" /\ IsDefined(instancesArg)
CombineReturned == CombineCalled /\ pc = "returned"
NumInstances == Len(Val(instancesArg))

\* The geometry of instance i as it was passed, and the geometry returned.
Geometry0(i) == heap0[Val(instancesArg)[i].geometry]
Combined == heap[Val(ret)]

\* The objects that existed when the filter was called.
IsInputObject(id) == id \in 1..Len(heap0)

\* C7 as stated: no Geometry returned by combine or by
\* fitToUnsignedShortIndices is an object that was passed in.
C7_ResultsAlwaysNew ==
    /\ (CombineReturned => ~IsInputObject(Val(ret)))
    /\ (FitReturned => \A n \in 1..Len(Val(ret)) : ~IsInputObject(Val(ret)[n]))

\* C7, amended: combine of two or more instances returns a new Geometry, and
\* combine of one instance returns that instance's geometry itself;
\* fitToUnsignedShortIndices returns new Geometry objects when it partitions
\* (index list present and more than sixtyFourK vertices), and otherwise the
\* input mesh itself.
C7_ResultsNewWhenBuilt ==
    /\ (CombineReturned /\ NumInstances >= 2) => ~IsInputObject(Val(ret))
    /\ (CombineReturned /\ NumInstances = 1) =>
            Val(ret) = Val(instancesArg)[1].geometry
    /\ (FitReturned /\ FitOverLimit) =>
            \A n \in 1..Len(Val(ret)) : ~IsInputObject(Val(ret)[n])
    /\ (FitReturned /\ ~FitOverLimit) => ret = Some(<<Val(mesh)>>)

\* Two instances combined into a new Geometry.
C7_Witness ==
    /\ CombineReturned
    /\ NumInstances >= 2
    /\ ~IsInputObject(Val(ret))
    /\ Combined.attributes # <<>>

\* The values of the attribute name of the instances from i on, in input order.
RECURSIVE ConcatValues(_, _)
ConcatValues(name, i) ==
    IF i > NumInstances THEN <<>>
    ELSE GetAttr(Geometry0(i).attributes, name).values \o ConcatValues(name, i + 1)

RECURSIVE SumValueLengths(_, _)
SumValueLengths(name, i) ==
    IF i > NumInstances THEN 0
    ELSE Len(GetAttr(Geometry0(i).attributes, name).values)
         + SumValueLengths(name, i + 1)

\* C8: combine of two or more instances yields, for each attribute of the
\* result, a value buffer whose length is the sum of the instances' value
\* lengths for that attribute and whose content is the instances' values
\* concatenated in input order.
C8_CombineConcatenatesValues ==
    (CombineReturned /\ NumInstances >= 2) =>
        \A p \in 1..Len(Combined.attributes) :
            LET name == Combined.attributes[p].name IN
            /\ \A i \in 1..NumInstances : HasAttr(Geometry0(i).attributes, name)
            /\ Len(Combined.attributes[p].values) = SumValueLengths(name, 1)
            /\ Combined.attributes[p].values = ConcatValues(name, 1)

\* Two instances of different vertex counts, two attributes kept.
C8_Witness ==
    /\ CombineReturned
    /\ NumInstances >= 2
    /\ Len(Combined.attributes) = 2
    /\ Len(Geometry0(1).attributes[1].values) # Len(Geometry0(2).attributes[1].values)

\* The vertex count of a geometry (its attributes agree on it).
VerticesOf(g) ==
    Len(g.attributes[1].values) \div g.attributes[1].componentsPerAttribute

RECURSIVE VerticesBefore(_)
VerticesBefore(i) ==
    IF i <= 1 THEN 0 ELSE VerticesBefore(i - 1) + VerticesOf(Geometry0(i - 1))

\* The indices of the instances from i on, each plus the vertex count of the
\* instances before its own.
RECURSIVE ShiftedIndices(_)
ShiftedIndices(i) ==
    IF i > NumInstances THEN <<>>
    ELSE LET indices == Val(Geometry0(i).indexList)
             before == VerticesBefore(i)
         IN  AsTuple([k \in 1..Len(indices) |-> indices[k] + before])
             \o ShiftedIndices(i + 1)

\* C9: the index list combine returns holds the instances' indices in input
\* order, each equal to the source index plus the total vertex count of the
\* instances before its own, whatever the size of the merged mesh.
C9_CombineOffsetsIndices ==
    (CombineReturned /\ NumInstances >= 2) =>
        Combined.indexList = Some(ShiftedIndices(1))

\* The attributes of the first instance that every instance has with the
\* same componentDatatype, componentsPerAttribute and normalize.
InEveryInstance(a) ==
    \A i \in 1..NumInstances :
        \E p \in 1..Len(Geometry0(i).attributes) :
            LET b == Geometry0(i).attributes[p] IN
            /\ b.name = a.name
            /\ b.componentDatatype = a.componentDatatype
            /\ b.componentsPerAttribute = a.componentsPerAttribute
            /\ b.normalize = a.normalize

\* C10: the attributes of combine's result are exactly those of the first
\* instance that every instance has with the same componentDatatype,
\* componentsPerAttribute and normalize; and each keeps these three.
C10_CombineKeepsIntersection ==
    CombineReturned =>
        /\ AttrNames(Combined.attributes)
             = {Geometry0(1).attributes[p].name :
                  p \in {q \in 1..Len(Geometry0(1).attributes) :
                            InEveryInstance(Geometry0(1).attributes[q])}}
        /\ \A p \in 1..Len(Combined.attributes) :
              InEveryInstance(Combined.attributes[p])

\* Two instances whose st differs in normalize alone: position is kept and
\* st is dropped.
C10_Witness ==
    /\ CombineReturned
    /\ NumInstances >= 2
    /\ AttrNames(Combined.attributes) = {"position"}
    /\ \A i \in 1..NumInstances : HasAttr(Geometry0(i).attributes, "st")
    /\ \E i \in 2..NumInstances :
          LET a == GetAttr(Geometry0(1).attributes, "st")
              b == GetAttr(Geometry0(i).attributes, "st")
          IN  /\ a.normalize # b.normalize
              /\ a.componentDatatype = b.componentDatatype
              /\ a.componentsPerAttribute = b.componentsPerAttribute

\* The union, folded in input order, of the bounding spheres of the
\* instances up to i (every one of them has one).
RECURSIVE UnionOfSpheres(_)
UnionOfSpheres(i) ==
    IF i = 1 THEN Val(Geometry0(1).boundingSphere)
    ELSE BoundingSphereUnion(UnionOfSpheres(i - 1),
                             Val(Geometry0(i).boundingSphere))

SomeInstanceLacksSphere ==
    \E i \in 1..NumInstances : ~IsDefined(Geometry0(i).boundingSphere)

\* C11: the geometry combine builds from two or more instances has no
\* bounding sphere if any instance's geometry lacks one, wherever that
\* instance is in the list; otherwise its bounding sphere is the union,
\* folded in input order, of the instances' bounding spheres; and no
\* instance's own bounding sphere is changed.
C11_CombineUnionsBoundingSpheres ==
    (CombineReturned /\ NumInstances >= 2) =>
        /\ Combined.boundingSphere =
              IF SomeInstanceLacksSphere THEN None
              ELSE Some(UnionOfSpheres(NumInstances))
        /\ \A i \in 1..NumInstances :
              heap[Val(instancesArg)[i].geometry].boundingSphere
                = Geometry0(i).boundingSphere

\* Two instances with different spheres, combined into a sphere that is
\* neither of the two.
C11_Witness ==
    /\ CombineReturned
    /\ NumInstances >= 2
    /\ ~SomeInstanceLacksSphere
    /\ IsDefined(Combined.boundingSphere)
    /\ \A i \in 1..NumInstances :
          Combined.boundingSphere # Geometry0(i).boundingSphere

\* C12: combine fails when the instance list is absent or empty, and when
\* some instance's modelMatrix differs from another's; in each case nothing
\* is returned and no Geometry is created.
C12_CombineRejectsBadInstances ==
    (op = "combine" /\ pc # "ready"
     /\ \/ ~IsDefined(instancesArg)
        \/ NumInstances = 0
        \/ \E i, j \in 1..NumInstances :
              Val(instancesArg)[i].modelMatrix # Val(instancesArg)[j].modelMatrix)
    => (pc = "threw" /\ ret = None /\ heap = heap0)

\* Two instances with an index list each, rejected for their matrices alone.
C12_Witness ==
    /\ CombineCalled
    /\ pc = "threw"
    /\ NumInstances >= 2
    /\ Val(instancesArg)[1].modelMatrix # Val(instancesArg)[2].modelMatrix
    /\ \A i \in 1..NumInstances : IsDefined(Geometry0(i).indexList)

(***************************************************************************)
(* toWireframe: properties.                                                *)
(***************************************************************************)
WireframeCalled == op = "toWireframe" /\ IsDefined(mesh)
WireframeReturned == WireframeCalled /\ pc = "returned"

\* The call was given a mesh of primitive type pt with an index list.
WireframeOf(pt) ==
    /\ WireframeReturned
    /\ In0.primitiveType = pt
    /\ IsDefined(In0.indexList)

\* The six line indices written for the triangle (a, b, c), at block k of
\* the output.
EdgesAt(k) == SubSeq(Val(Out.indexList), 6 * k + 1, 6 * k + 6)
EdgesOf(a, b, c) == <<a, b, b, c, c, a>>

\* C13 as stated: for every TRIANGLES mesh with an index list, toWireframe
\* leaves exactly 2 x indexCount line indices, a,b,b,c,c,a for each input
\* triangle (a,b,c) in order, and sets primitiveType to LINES.
C13_WireframeTwiceTheIndices ==
    WireframeOf("TRIANGLES") =>
        LET triangles == Val(In0.indexList) IN
        /\ Out.primitiveType = "LINES"
        /\ IsDefined(Out.indexList)
        /\ Len(Val(Out.indexList)) = 2 * Len(triangles)
        /\ \A k \in 0..((Len(triangles) \div 3) - 1) :
              EdgesAt(k) = EdgesOf(triangles[3 * k + 1], triangles[3 * k + 2],
                                   triangles[3 * k + 3])

\* C13, amended: the 2 x indexCount holds for an index count that is a
\* multiple of 3.  In general toWireframe writes six line indices for every
\* started group of three indices, a,b,b,c,c,a for the group (a,b,c) in
\* order, the corners missing from a last incomplete group being undefined;
\* it does not deduplicate, and it sets primitiveType to LINES.
C13_WireframeSixPerTriangle ==
    WireframeOf("TRIANGLES") =>
        LET triangles == Val(In0.indexList)
            groups == (Len(triangles) + 2) \div 3
        IN
        /\ Out.primitiveType = "LINES"
        /\ IsDefined(Out.indexList)
        /\ Len(Val(Out.indexList)) = 6 * groups
        /\ (Len(triangles) % 3 = 0 =>
                Len(Val(Out.indexList)) = 2 * Len(triangles))
        /\ \A k \in 0..(groups - 1) :
              EdgesAt(k) = EdgesOf(ArrGet(triangles, 3 * k),
                                   ArrGet(triangles, 3 * k + 1),
                                   ArrGet(triangles, 3 * k + 2))
        /\ Out.attributes = In0.attributes

\* Two triangles that share an edge: the edge is in the output twice.
C13_Witness ==
    /\ WireframeOf("TRIANGLES")
    /\ LET triangles == Val(In0.indexList) IN
       /\ Len(triangles) = 6
       /\ Cardinality({triangles[1], triangles[2], triangles[3]}) = 3
       /\ triangles[4] = triangles[3]
       /\ triangles[5] = triangles[2]
       /\ Len(Val(Out.indexList)) = 12
       /\ SubSeq(Val(Out.indexList), 3, 4) = <<triangles[2], triangles[3]>>
       /\ SubSeq(Val(Out.indexList), 7, 8) = <<triangles[3], triangles[2]>>

\* The orderings of the corners (a, b, c) of a triangle.
Orderings(a, b, c) ==
    {<<a, b, c>>, <<a, c, b>>, <<b, a, c>>, <<b, c, a>>, <<c, a, b>>, <<c, b, a>>}

\* C20: toWireframe expands a TRIANGLE_STRIP index list of n >= 3 indices
\* into n-2 triangles, the one for position i (from 2 on, one index at a
\* time) having the indices at positions i, i-1, i-2 as corners, and a
\* TRIANGLE_FAN index list of n >= 3 indices into the n-2 triangles
\* (index 0, index i, index i+1); each triangle contributes its three edges,
\* so the output has 6*(n-2) line indices; fewer than 3 indices yield an
\* empty line list.
C20_WireframeExpandsStripAndFan ==
    /\ WireframeOf("TRIANGLE_STRIP") =>
          LET triangles == Val(In0.indexList)
              n == Len(triangles)
              lines == Val(Out.indexList)
          IN  /\ Out.primitiveType = "LINES"
              /\ n < 3 => lines = <<>>
              /\ n >= 3 =>
                    /\ Len(lines) = 6 * (n - 2)
                    /\ \A i \in 2..(n - 1) :
                          \E t \in Orderings(triangles[i + 1], triangles[i],
                                              triangles[i - 1]) :
                              EdgesAt(i - 2) = EdgesOf(t[1], t[2], t[3])
    /\ WireframeOf("TRIANGLE_FAN") =>
          LET triangles == Val(In0.indexList)
              n == Len(triangles)
              lines == Val(Out.indexList)
          IN  /\ Out.primitiveType = "LINES"
              /\ n < 3 => lines = <<>>
              /\ n >= 3 =>
                    /\ Len(lines) = 6 * (n - 2)
                    /\ \A i \in 1..(n - 2) :
                          EdgesAt(i - 1) = EdgesOf(triangles[1], triangles[i + 1],
                                                   triangles[i + 2])

\* A strip of five indices, the first three and the last three all
\* different: three triangles, eighteen line indices.
C20_Witness ==
    /\ WireframeOf("TRIANGLE_STRIP")
    /\ LET triangles == Val(In0.indexList) IN
       /\ Len(triangles) = 5
       /\ Cardinality({triangles[1], triangles[2], triangles[3]}) = 3
       /\ Cardinality({triangles[3], triangles[4], triangles[5]}) = 3
       /\ Len(Val(Out.indexList)) = 18

(***************************************************************************)
(* mapAttributeIndices: properties.                                        *)
(***************************************************************************)
MapReturned ==
    /\ op = "mapAttributeIndices"
    /\ pc = "returned"
    /\ IsDefined(tables.indices)
    /\ IsDefined(tables.map)

\* The properties of map whose name indices has, and those it lacks.
MapEntries == {Val(tables.map)[i] : i \in 1..Len(Val(tables.map))}
EntriesInBoth == {e \in MapEntries : e[1] \in DOMAIN Val(tables.indices)}
EntriesAbsent == MapEntries \ EntriesInBoth

\* No two names are mapped to the same key.
MapIsInjective == \A e, f \in MapEntries : e[2] = f[2] => e = f

\* C14 as stated: for a map that gives every name a key of its own, the
\* result of mapAttributeIndices has no key for a name that indices lacks,
\* and has exactly one entry for each name that both tables have.
C14_MapDropsAbsentNames ==
    (MapReturned /\ MapIsInjective) =>
        /\ \A e \in EntriesAbsent : e[2] \notin DOMAIN Val(ret)
        /\ DOMAIN Val(ret) = {e[2] : e \in EntriesInBoth}
        /\ Cardinality(DOMAIN Val(ret)) = Cardinality(EntriesInBoth)

(***************************************************************************)
(* transformToWorldCoordinates: properties.                                *)
(***************************************************************************)
TransformCalled == op = "transformToWorldCoordinates" /\ IsDefined(instance0)

\* The first call has returned (and no second call was made).
TransformReturned == TransformCalled /\ pc = "returned"

\* The geometry of the instance before and after the last call.
InstanceGeometry0 == heap0[Val(instance0).geometry]
InstanceGeometry == heap[Val(instance).geometry]

\* C15: on an instance whose modelMatrix is the identity the call changes
\* nothing (attribute values, bounding sphere, modelMatrix); after a call
\* that transforms, the instance's modelMatrix is the identity; and a call
\* repeated at once changes nothing.
C15_TransformIdentityIsNoOp ==
    /\ (TransformReturned /\ Val(instance0).modelMatrix = IDENTITY) =>
          /\ heap = heap0
          /\ instance = instance0
    /\ (TransformReturned /\ Val(instance0).modelMatrix # IDENTITY) =>
          Val(instance).modelMatrix = IDENTITY
    /\ (TransformCalled /\ pc = "returned again") =>
          /\ heap = heap0
          /\ instance = instance0

\* A second call after a call that moved the positions, the normals and the
\* bounding sphere.
C15_Witness ==
    /\ TransformCalled
    /\ pc = "returned again"
    /\ Val(instance).modelMatrix = IDENTITY
    /\ HasAttr(InstanceGeometry.attributes, "position")
    /\ HasAttr(InstanceGeometry.attributes, "normal")
    /\ IsDefined(InstanceGeometry.boundingSphere)
    /\ GetAttr(InstanceGeometry.attributes, "position").values
         # Values(100, 3 * VerticesOf(InstanceGeometry))
    /\ GetAttr(InstanceGeometry.attributes, "normal").values
         # Values(300, 3 * VerticesOf(InstanceGeometry))
    /\ Val(InstanceGeometry.boundingSphere).center # <<1, 2, 3>>

\* C16 as stated: every filter call that returns gives back the object it
\* was given or a new one; transformToWorldCoordinates returns the instance
\* it was given for every model matrix, the identity included.
C16_FiltersReturnAnObject ==
    /\ (TransformCalled /\ pc \in {"returned", "returned again"}) =>
          ret = Some(TheInstance)
    /\ (ReorderReturned \/ WireframeReturned) => ret = mesh
    /\ (FitReturned \/ CombineReturned \/ MapReturned) => IsDefined(ret)

(***************************************************************************)
(* computeNormal and computeTangentAndBinormal: properties.                *)
(***************************************************************************)
NormalCalled == op = "computeNormal" /\ IsDefined(mesh)
TangentCalled == op = "computeTangentAndBinormal" /\ IsDefined(mesh)

\* The mesh has the attribute name, with cpa components a vertex and a whole
\* number of vertices.
IsWellFormed(g, name, cpa) ==
    \E p \in 1..Len(g.attributes) :
        /\ g.attributes[p].name = name
        /\ g.attributes[p].componentsPerAttribute = cpa
        /\ Len(g.attributes[p].values) % cpa = 0

\* The number of vertices of the attribute name.
VertexCountOf(g, name) ==
    Len(GetAttr(g.attributes, name).values)
        \div GetAttr(g.attributes, name).componentsPerAttribute

\* The attribute preconditions the two filters test.
NormalPreconditions(g) == IsWellFormed(g, "position", 3)
TangentPreconditions(g) ==
    /\ IsWellFormed(g, "position", 3)
    /\ IsWellFormed(g, "normal", 3)
    /\ IsWellFormed(g, "st", 2)

\* No index list, not TRIANGLES, fewer than 2 indices, or an index count
\* that is no multiple of 3.
NothingToSynthesize(g) ==
    \/ g.indexList = None
    \/ g.primitiveType \in PrimitiveTypes \ {"TRIANGLES"}
    \/ (g.indexList # None /\ Len(Val(g.indexList)) < 2)
    \/ (g.indexList # None /\ Len(Val(g.indexList)) % 3 # 0)

\* C17: computeNormal and computeTangentAndBinormal, given a mesh that meets
\* their attribute preconditions, return that mesh with no attribute added
\* or changed whenever the index list is absent, primitiveType is not
\* TRIANGLES, the index count is below 2, or it is no multiple of 3.
C17_SynthesisNoOpWhenNotApplicable ==
    /\ (NormalCalled /\ pc # "ready"
           /\ NormalPreconditions(In0) /\ NothingToSynthesize(In0)) =>
          (pc = "returned" /\ ret = mesh /\ heap = heap0)
    /\ (TangentCalled /\ pc # "ready"
           /\ TangentPreconditions(In0) /\ NothingToSynthesize(In0)) =>
          (pc = "returned" /\ ret = mesh /\ heap = heap0)

\* A triangle strip of three indices, with every attribute the tangent
\* filter reads: returned as it was.
C17_Witness ==
    /\ TangentCalled
    /\ pc = "returned"
    /\ TangentPreconditions(In0)
    /\ In0.primitiveType = "TRIANGLE_STRIP"
    /\ In0.indexList = Some(<<0, 1, 2>>)
    /\ Out = In0

\* C18 as stated: computeTangentAndBinormal fails whenever position, normal
\* or st is missing or ill-formed, or the three attributes are not of the
\* same number of vertices.
C18_TangentRejectsBadAttributes ==
    (TangentCalled /\ pc # "ready"
       /\ \/ ~TangentPreconditions(In0)
          \/ VertexCountOf(In0, "position") # VertexCountOf(In0, "normal")
          \/ VertexCountOf(In0, "position") # VertexCountOf(In0, "st"))
    => pc = "threw"

\* computeNormal has something to compute: a TRIANGLES mesh with a position
\* attribute and one or more whole triangles of valid indices (and, if it
\* has a normal attribute already, one of as many vertices).
NormalApplicable ==
    /\ NormalCalled
    /\ pc # "ready"
    /\ NormalPreconditions(In0)
    /\ ~NothingToSynthesize(In0)
    /\ \A k \in 1..Len(Val(In0.indexList)) :
          Val(In0.indexList)[k] \in 0..(VertexCountOf(In0, "position") - 1)
    /\ HasAttr(In0.attributes, "normal") =>
          /\ IsWellFormed(In0, "normal", 3)
          /\ VertexCountOf(In0, "normal") = VertexCountOf(In0, "position")

\* The position of the vertex at corner k (1-based) of the index list.
CornerPosition(k) ==
    LET v == Val(In0.indexList)[k]
        values == GetAttr(In0.attributes, "position").values
    IN  <<values[3 * v + 1], values[3 * v + 2], values[3 * v + 3]>>

\* (v1 - v0) x (v2 - v0) for triangle t (0-based).
FaceNormalOf(t) ==
    cross(subtract(CornerPosition(3 * t + 2), CornerPosition(3 * t + 1)),
          subtract(CornerPosition(3 * t + 3), CornerPosition(3 * t + 1)))

\* The sum of the face normals of the corners from k on that are vertex v.
RECURSIVE SumOfFaceNormals(_, _)
SumOfFaceNormals(v, k) ==
    IF k > Len(Val(In0.indexList)) THEN <<0, 0, 0>>
    ELSE add(IF Val(In0.indexList)[k] = v THEN FaceNormalOf((k - 1) \div 3)
             ELSE <<0, 0, 0>>,
             SumOfFaceNormals(v, k + 1))

ExpectedNormal(v) ==
    IF \A k \in 1..Len(Val(In0.indexList)) : Val(In0.indexList)[k] # v
    THEN <<0, 0, 1>>
    ELSE normalizeVector(SumOfFaceNormals(v, 1))

\* C19: computeNormal on an applicable mesh returns it with a normal
\* attribute of one normal per vertex: the normalization of the sum, over
\* the triangle corners that are the vertex, of the triangle's face normal
\* (v1 - v0) x (v2 - v0), and (0,0,1) for a vertex no triangle has; nothing
\* else is changed; the triangle (0,0,0),(1,0,0),(0,1,0) alone gives
\* (0,0,1) at its three vertices.
C19_NormalIsSumOfFaceNormals ==
    NormalApplicable =>
        /\ pc = "returned"
        /\ ret = mesh
        /\ IsWellFormed(Out, "normal", 3)
        /\ VertexCountOf(Out, "normal") = VertexCountOf(In0, "position")
        /\ \A v \in 0..(VertexCountOf(In0, "position") - 1) :
              Block(GetAttr(Out.attributes, "normal").values, 3, v)
                = ExpectedNormal(v)
        /\ \A p \in 1..Len(In0.attributes) :
              In0.attributes[p].name # "normal" =>
                  Out.attributes[p] = In0.attributes[p]
        /\ Out.indexList = In0.indexList
        /\ Out.primitiveType = In0.primitiveType
        /\ In0.indexList = Some(<<0, 1, 2>>) =>
              SubSeq(GetAttr(Out.attributes, "normal").values, 1, 9)
                = <<0, 0, 1,  0, 0, 1,  0, 0, 1>>

\* Two faces of the tetrahedron that share an edge: the vertices of the
\* edge get the sum of two face normals, the others one face normal each.
C19_Witness ==
    /\ NormalApplicable
    /\ pc = "returned"
    /\ In0.indexList = Some(<<0, 1, 2, 0, 1, 3>>)
    /\ ~HasAttr(In0.attributes, "normal")
    /\ GetAttr(Out.attributes, "normal").values
         = <<0, -1, 1,  0, -1, 1,  0, 0, 1,  0, -1, 0>>

(***************************************************************************)
(* Errors: properties.                                                     *)
(***************************************************************************)
\* The filters that say they modify or combine what they are given.
FiltersThatRaise ==
    {"toWireframe", "reorderForPreVertexCache", "fitToUnsignedShortIndices",
     "encodeAttribute", "transformToWorldCoordinates", "combine",
     "computeNormal", "computeTangentAndBinormal"}

\* The call has raised an error.
Raised == op \in FiltersThatRaise /\ pc = "threw"

\* Every object that was passed is as it was when the filter was called, and
\* so is the instance (its geometry reference and its modelMatrix).
ArgumentsUntouched == heap = heap0 /\ instance = instance0

\* C21: whenever one of the eight filters raises an error, the geometry or
\* the instances passed in are exactly as they were before the call: no
\* attribute added, removed or rewritten, and index list, primitiveType and
\* modelMatrix unchanged.
C21_NoPartialResultOnError == Raised => ArgumentsUntouched

\* The error is the TypeError of transformVector (line 548) on a direction
\* attribute without values, raised after transformPoint (lines 535-541) has
\* rewritten the positions in place.
RaisedAfterRewritingPositions ==
    /\ Raised
    /\ op = "transformToWorldCoordinates"
    /\ IsDefined(instance0)
    /\ HasAttr(heap0[Val(instance0).geometry].attributes, "position")
    /\ GetAttr(heap[Val(instance).geometry].attributes, "position")
         # GetAttr(heap0[Val(instance0).geometry].attributes, "position")

\* The filters other than transformToWorldCoordinates leave what they were
\* given as it was when they raise an error.
OtherFiltersLeaveNoPartialResult ==
    Raised /\ op # "transformToWorldCoordinates" => ArgumentsUntouched

(***************************************************************************)
(* reorderForPreVertexCache: the vertices as a whole.                      *)
(***************************************************************************)
\* The number of the first n vertices of values whose block is b.
BlockCount(values, cpa, n, b) ==
    Cardinality({v \in 0..(n - 1) : Block(values, cpa, v) = b})

\* before and after hold the same number of values and the same blocks, each
\* as many times.
SameBlocks(before, after, cpa, n) ==
    /\ Len(after) = Len(before)
    /\ \A v \in 0..(n - 1) :
          BlockCount(after, cpa, n, Block(before, cpa, v))
              = BlockCount(before, cpa, n, Block(before, cpa, v))

\* Read left to right, the first occurrences of the indices are 0, 1, 2, ...
FirstUseOrder(indices) ==
    \A k \in 1..Len(indices) :
        LET seen == {indices[j] : j \in 1..(k - 1)}
        IN  indices[k] \in seen \/ indices[k] = Cardinality(seen)

\* Every vertex of g is referenced by some index.
EveryVertexReferenced(g) ==
    \A v \in 0..(VertexCount(g) - 1) :
        \E k \in 1..Len(Val(g.indexList)) : Val(g.indexList)[k] = v

\* The call leaves every attribute with the values it had, block by block.
BlocksKept ==
    \A p \in 1..Len(In0.attributes) :
        SameBlocks(In0.attributes[p].values, Out.attributes[p].values,
                   In0.attributes[p].componentsPerAttribute, VertexCount(In0))

\* C22: after reorderForPreVertexCache on a mesh whose indices are all below
\* the vertex count, whether or not every vertex is referenced, every
\* attribute has as many values as before and the same per-vertex blocks, each
\* as many times, and the first occurrences of the indices of the rewritten
\* index list are 0, 1, 2, ... from left to right.
C22_ReorderOnlyPermutesVertices ==
    (ReorderReturned /\ ValidIndices(In0)) =>
        /\ BlocksKept
        /\ FirstUseOrder(Val(Out.indexList))

\* The same for the meshes all of whose vertices are referenced.
ReorderPermutesReferencedVertices ==
    (ReorderReturned /\ ValidIndices(In0) /\ EveryVertexReferenced(In0)) =>
        /\ BlocksKept
        /\ FirstUseOrder(Val(Out.indexList))

\* The rewritten index list is in first-use order whatever the vertices.
ReorderNumbersInFirstUseOrder ==
    (ReorderReturned /\ ValidIndices(In0)) => FirstUseOrder(Val(Out.indexList))

\* A mesh with a vertex no index references has been reordered.
ReorderedWithUnreferencedVertex ==
    /\ ReorderReturned
    /\ ValidIndices(In0)
    /\ In0.attributes # <<>>
    /\ Val(In0.indexList) # <<>>
    /\ ~EveryVertexReferenced(In0)

====
